---- MODULE Spec2Model ----
(***************************************************************************)
(* Verification model of the UAVCAN/CAN transport core:                    *)
(*   - uavcan/transport.py: Frame, TransferManager (reassembly table)      *)
(*   - pyuavcan/transport/can/_can.py: CANTransport (session router,       *)
(*     node-id assignment) and _compute_input_dispatch_table_index.        *)
(* Each part has its own specification over a shared set of variables; a   *)
(* specification leaves the variables of the other parts untouched.        *)
(***************************************************************************)
EXTENDS Integers, Sequences, FiniteSets, TLC

\* Python's None, for values that are otherwise naturals (node ids, transfer
\* ids, session handles, table slots).
None == 0 - 1

(***************************************************************************)
(* Bounds of the model.                                                    *)
(***************************************************************************)
\* TransferManager: frames injected and the last tick of the monotonic clock;
\* the message ids and 5-bit transfer ids the bus offers.
MaxFrames == 3
MaxTime == 2
MessageIds == 0..1
TransferIds == 0..1

\* CAN transport: sessions created, and frames reported by the media in one
\* call of the reception callback.
MaxSessions == 2
MaxBatch == 1

\* Frames reported by the media over all calls of the reception callback,
\* where every frame is logged.
MaxReported == 3

\* send() calls made on the output sessions.
MaxSends == 2

\* set_local_node_id calls made.
MaxCalls == 3

\* ArrayValue: the calls made on one array.
MaxArrayCalls == 3

\* The masks of _can_id (CANID.NODE_ID_MASK, MessageCANID.SUBJECT_ID_MASK,
\* ServiceCANID.SERVICE_ID_MASK), scaled down: the dispatch table has one
\* slot per (data specifier, node id or None) and is modelled densely.
NODE_ID_MASK == 2
SUBJECT_ID_MASK == 1
SERVICE_ID_MASK == 1

\* Default timeout of remove_inactive_transfers (1.0 s); one tick is 1 s.
Timeout == 1

VARIABLES
    \* ---- TransferManager (uavcan/transport.py) ----
    active_transfers,            \* dict: transfer key -> list of frames
    active_order,                \* insertion order of active_transfers' keys
    active_transfer_timestamps,  \* dict: transfer key -> monotonic time
    now,                         \* time.monotonic()
    nrx,                         \* number of frames handed to receive_frame
    since,                       \* history: frames accepted per (message id,
                                 \* 5-bit transfer id) since the bucket opened
    tm_last,                     \* the last call and what it returned
    \* ---- CANTransport (pyuavcan/transport/can/_can.py) ----
    output_registry,             \* dict: (data specifier, destination) -> session
    input_dispatch_table,        \* list of _INPUT_DISPATCH_TABLE_SIZE + 1 slots
    sessions,                    \* the session objects made by the factories
    current,                     \* history: per key, the session returned by
                                 \* get_* since the key's finalizer last ran
    rt_last,                     \* the last call and what it did
    local_node_id,               \* CANTransport._local_node_id
    calls,                       \* the set_local_node_id calls made so far
    retransmission,              \* media.enable_automatic_retransmission calls
    \* ---- _compute_input_dispatch_table_index on its own ----
    ix_in,                       \* two legal inputs
    ix_out,                      \* their indices, once computed
    \* ---- serialization (uavcan/transport.py) ----
    sr_value,                    \* a value object, built by assignments
    sr_tao,                      \* the _tao argument it was built with
    sr_stream,                   \* its _pack() result
    sr_unpacked,                 \* a fresh object after _unpack(sr_stream)
    sr_pc,                       \* "idle", "value", "packed", "unpacked"
    array,                       \* an ArrayValue under a sequence of calls
    array_last,                  \* the last call on it and how it ended
    un_value,                    \* a union value under a sequence of calls
    un_last,                     \* the last call on it, how it ended and
                                 \* the value before it
    \* ---- Transfer (uavcan/transport.py) ----
    transfer,                    \* the Transfer that is sent
    frame_list,                  \* the frames handed to from_frames
    sent,                        \* history: the payload value of the Transfer
                                 \* and what was done to its frames
    received,                    \* the Transfer from_frames filled in
    xf_pc,                       \* "idle", "new", "frames", "done"
    \* ---- CANTransport: frames reported and pushed, sends ----
    media_log,                   \* history: the frames the media has reported
    push_log,                    \* history: per session, the frames that
                                 \* push_frame was called with
    media_lock,                  \* per lock, the send that holds it
    sends,                       \* the send() calls made so far
    wire                         \* the frames the media sent, in order

tm_vars == <<active_transfers, active_order, active_transfer_timestamps,
             now, nrx, since, tm_last>>

rt_vars == <<output_registry, input_dispatch_table, sessions,
             current, rt_last>>

ni_vars == <<local_node_id, calls, retransmission>>

ix_vars == <<ix_in, ix_out>>

sr_vars == <<sr_value, sr_tao, sr_stream, sr_unpacked, sr_pc>>

ar_vars == <<array, array_last>>

xf_vars == <<transfer, frame_list, sent, received, xf_pc>>

bt_vars == <<media_log, push_log>>

sd_vars == <<media_lock, sends, wire>>

un_vars == <<un_value, un_last>>

\* The variables of the serialization and Transfer parts.
st_vars == <<sr_vars, ar_vars, xf_vars, un_vars>>

vars == <<active_transfers, active_order, active_transfer_timestamps,
          now, nrx, since, tm_last,
          output_registry, input_dispatch_table, sessions,
          current, rt_last,
          local_node_id, calls, retransmission,
          ix_in, ix_out,
          sr_value, sr_tao, sr_stream, sr_unpacked, sr_pc, array, array_last,
          un_value, un_last,
          transfer, frame_list, sent, received, xf_pc,
          media_log, push_log, media_lock, sends, wire>>

(***************************************************************************)
(* Helpers                                                                 *)
(***************************************************************************)
Bit(x, w) == (x \div w) % 2

\* d with key k removed (del d[k]).
DictDel(d, k) == [x \in (DOMAIN d) \ {k} |-> d[x]]

\* d with d[k] = v, inserting k when absent.
DictSet(d, k, v) == [x \in (DOMAIN d) \cup {k} |-> IF x = k THEN v ELSE d[x]]

SeqDel(s, k) == SelectSeq(s, LAMBDA x : x # k)

Range(s) == {s[i] : i \in DOMAIN s}

(***************************************************************************)
(* Frame (uavcan/transport.py)                                             *)
(***************************************************************************)
Last(bytes) == bytes[Len(bytes)]

\* Frame.transfer_key with the transfer id left out of the key.
transfer_key_without_id(frame) == <<frame.message_id, 0>>

\* Frame.transfer_key: (message_id, bytes[-1] & 0x1F), None for no bytes.
transfer_key(frame) ==
    <<frame.message_id,
      IF frame.bytes # <<>> THEN Last(frame.bytes) % 32 ELSE None>>

toggle(frame) ==
    IF frame.bytes # <<>> THEN Bit(Last(frame.bytes), 32) = 1 ELSE FALSE

end_of_transfer(frame) ==
    IF frame.bytes # <<>> THEN Bit(Last(frame.bytes), 64) = 1 ELSE FALSE

start_of_transfer(frame) ==
    IF frame.bytes # <<>> THEN Bit(Last(frame.bytes), 128) = 1 ELSE FALSE

\* The tail bytes and frames the bus can deliver: every combination of
\* start-of-transfer and end-of-transfer with the transfer ids in use (the
\* toggle bit, which the TransferManager never reads, is left clear).
TailBytes ==
    {128 * s + 64 * e + t : s \in 0..1, e \in 0..1, t \in TransferIds}

FrameBytes == {<<>>} \cup {<<tl>> : tl \in TailBytes}

NoFrame == [message_id |-> 0, bytes |-> <<>>, seq |-> 0, ts_monotonic |-> 0]

\* receive_frame returns None or a non-empty list; None is the empty list here.
NoResult == <<>>

(***************************************************************************)
(* TransferManager                                                         *)
(***************************************************************************)
TMInit ==
    /\ active_transfers = <<>>
    /\ active_order = <<>>
    /\ active_transfer_timestamps = <<>>
    /\ now = 0
    /\ nrx = 0
    /\ since = <<>>
    /\ tm_last = [op |-> "init", frame |-> NoFrame, result |-> NoResult,
                  accepted |-> FALSE, gap |-> None,
                  timeout |-> 0, outcome |-> "ok"]

\* The guard of receive_frame without the test for an existing bucket.
AcceptsAlways(frame, active) == TRUE

\* receive_frame, line 764: key in self.active_transfers or frame.start_of_transfer
Accepts(frame, active) ==
    transfer_key(frame) \in DOMAIN active \/ start_of_transfer(frame)

\* The key the transfer layer is specified to use, written out from the tail
\* byte (history only).
WireKey(frame) ==
    <<frame.message_id,
      IF frame.bytes # <<>> THEN Last(frame.bytes) % 32 ELSE None>>

receive_frame(message_id, bytes) ==
    LET frame == [message_id |-> message_id, bytes |-> bytes,
                  seq |-> nrx + 1, ts_monotonic |-> now]
        key == transfer_key(frame)
        fresh == key \notin DOMAIN active_transfers
        bucket == IF fresh THEN <<frame>>
                  ELSE Append(active_transfers[key], frame)
        gap == IF fresh THEN None ELSE now - active_transfer_timestamps[key]
    IN  /\ nrx < MaxFrames
        /\ nrx' = nrx + 1
        /\ now' = now
        /\ UNCHANGED <<rt_vars, ni_vars, ix_vars, st_vars, bt_vars, sd_vars>>
        /\ IF Accepts(frame, active_transfers)
           THEN /\ IF end_of_transfer(frame)
                   THEN /\ active_transfers' = DictDel(active_transfers, key)
                        /\ active_order' = SeqDel(active_order, key)
                        /\ active_transfer_timestamps' =
                               DictDel(active_transfer_timestamps, key)
                        /\ since' = DictDel(since, WireKey(frame))
                   ELSE /\ active_transfers' =
                               DictSet(active_transfers, key, bucket)
                        /\ active_order' =
                               IF fresh THEN Append(active_order, key)
                               ELSE active_order
                        /\ active_transfer_timestamps' =
                               DictSet(active_transfer_timestamps, key, now)
                        /\ since' =
                               DictSet(since, WireKey(frame),
                                   IF fresh \/ WireKey(frame) \notin DOMAIN since
                                   THEN <<frame>>
                                   ELSE Append(since[WireKey(frame)], frame))
                /\ tm_last' = [op |-> "receive_frame", frame |-> frame,
                               result |-> IF end_of_transfer(frame)
                                          THEN bucket ELSE NoResult,
                               accepted |-> TRUE, gap |-> gap,
                               timeout |-> 0, outcome |-> "ok"]
           ELSE /\ UNCHANGED <<active_transfers, active_order,
                               active_transfer_timestamps, since>>
                /\ tm_last' = [op |-> "receive_frame", frame |-> frame,
                               result |-> NoResult,
                               accepted |-> FALSE, gap |-> gap,
                               timeout |-> 0, outcome |-> "ok"]

\* The keys of active_transfers whose bucket is older than timeout at time t.
Expired(t, timeout) ==
    {k \in DOMAIN active_transfers :
        t - active_transfer_timestamps[k] > timeout}

\* The first i such that order[i] is expired (0 when there is none).
FirstExpired(order, t, timeout) ==
    IF \E i \in DOMAIN order : order[i] \in Expired(t, timeout)
    THEN CHOOSE i \in DOMAIN order :
            /\ order[i] \in Expired(t, timeout)
            /\ \A j \in 1..(i - 1) : order[j] \notin Expired(t, timeout)
    ELSE 0

\* The interpreters the module supports (line 28: sys.version_info[0] < 3).
Pythons == {2, 3}

\* remove_inactive_transfers. `transfer_keys = self.active_transfers.keys()`
\* is a list copy under Python 2, so every expired bucket is deleted; under
\* Python 3 it is a live view, and the first deletion makes the next step of
\* the loop raise RuntimeError (dictionary changed size during iteration),
\* with the buckets after it in insertion order not visited.
remove_inactive_transfers(timeout, py) ==
    LET t == now
        gone == IF py = 2 THEN Expired(t, timeout)
                ELSE IF FirstExpired(active_order, t, timeout) = 0 THEN {}
                ELSE {active_order[FirstExpired(active_order, t, timeout)]}
    IN  /\ active_transfers' =
               [k \in (DOMAIN active_transfers) \ gone |-> active_transfers[k]]
        /\ active_order' = SelectSeq(active_order, LAMBDA k : k \notin gone)
        /\ active_transfer_timestamps' =
               [k \in (DOMAIN active_transfer_timestamps) \ gone |->
                   active_transfer_timestamps[k]]
        /\ since' = [k \in (DOMAIN since) \ gone |-> since[k]]
        /\ tm_last' = [op |-> "remove_inactive_transfers", frame |-> NoFrame,
                       result |-> NoResult, accepted |-> FALSE, gap |-> None,
                       timeout |-> timeout,
                       outcome |-> IF py = 3 /\ gone # {}
                                   THEN "RuntimeError" ELSE "ok"]
        /\ UNCHANGED <<now, nrx>>
        /\ UNCHANGED <<rt_vars, ni_vars, ix_vars, st_vars, bt_vars, sd_vars>>

\* The monotonic clock advances.
Tick ==
    /\ now < MaxTime
    /\ now' = now + 1
    /\ UNCHANGED <<active_transfers, active_order, active_transfer_timestamps,
                   nrx, since, tm_last>>
    /\ UNCHANGED <<rt_vars, ni_vars, ix_vars, st_vars, bt_vars, sd_vars>>

TMNext ==
    \/ \E m \in MessageIds, b \in FrameBytes : receive_frame(m, b)
    \/ \E timeout \in 0..Timeout, py \in Pythons :
           remove_inactive_transfers(timeout, py)
    \/ Tick

(***************************************************************************)
(* Data specifiers and CAN identifiers (pyuavcan.transport, _can_id)       *)
(***************************************************************************)
MessageDataSpecifier(subject_id) ==
    [kind |-> "message", id |-> subject_id, role |-> "NONE"]

ServiceDataSpecifier(service_id, role) ==
    [kind |-> "service", id |-> service_id, role |-> role]

MessageCANID(subject_id, source_node_id) ==
    [kind |-> "message", id |-> subject_id, request_not_response |-> FALSE,
     source_node_id |-> source_node_id, destination_node_id |-> None]

ServiceCANID(service_id, request_not_response, source_node_id, destination_node_id) ==
    [kind |-> "service", id |-> service_id,
     request_not_response |-> request_not_response,
     source_node_id |-> source_node_id,
     destination_node_id |-> destination_node_id]

\* CANID.try_parse returned None: not a UAVCAN identifier.
NoCANID ==
    [kind |-> "none", id |-> 0, request_not_response |-> FALSE,
     source_node_id |-> None, destination_node_id |-> None]

\* A received request is input for the server, a received response for the
\* client.
to_input_data_specifier(can_id) ==
    IF can_id.kind = "service"
    THEN ServiceDataSpecifier(can_id.id,
             IF can_id.request_not_response THEN "SERVER" ELSE "CLIENT")
    ELSE MessageDataSpecifier(can_id.id)

\* A sent request is output of the client, a sent response of the server.
to_output_data_specifier(can_id) ==
    IF can_id.kind = "service"
    THEN ServiceDataSpecifier(can_id.id,
             IF can_id.request_not_response THEN "CLIENT" ELSE "SERVER")
    ELSE MessageDataSpecifier(can_id.id)

(***************************************************************************)
(* _compute_input_dispatch_table_index and the table's dimensions          *)
(***************************************************************************)
_NUM_SUBJECTS == SUBJECT_ID_MASK + 1
_NUM_SERVICES == SERVICE_ID_MASK + 1
_NUM_NODE_IDS == NODE_ID_MASK + 1

_INPUT_DISPATCH_TABLE_SIZE ==
    (_NUM_SUBJECTS + _NUM_SERVICES * 2) * (_NUM_NODE_IDS + 1)

\* The second dimension without the slot of the promiscuous inputs.
dim2_cardinality_without_promiscuous == _NUM_NODE_IDS

\* line 237
dim2_cardinality == _NUM_NODE_IDS + 1

_compute_input_dispatch_table_index(data_specifier, source_node_id) ==
    LET dim1 == IF data_specifier.kind = "message"
                THEN data_specifier.id
                ELSE IF data_specifier.role = "CLIENT"
                THEN data_specifier.id + _NUM_SUBJECTS
                ELSE data_specifier.id + _NUM_SUBJECTS + _NUM_SERVICES
        dim2 == IF source_node_id # None THEN source_node_id
                ELSE _NUM_NODE_IDS
    IN  dim1 * dim2_cardinality + dim2

(***************************************************************************)
(* CANTransport: the session router                                        *)
(***************************************************************************)
\* What the callers and the bus use: one subject, one service in both roles,
\* two nodes.
EnvSubjects == {SUBJECT_ID_MASK}
EnvServices == {SERVICE_ID_MASK}
EnvNodes == {1, NODE_ID_MASK}

EnvDataSpecifiers ==
    {MessageDataSpecifier(i) : i \in EnvSubjects}
    \cup {ServiceDataSpecifier(i, r) : i \in EnvServices, r \in {"CLIENT", "SERVER"}}

\* The identifiers on the bus: the subject from either node; a request and a
\* response of the service from node 1 to the other node, and a request in
\* the opposite direction.
EnvCANIDs ==
    {MessageCANID(i, n) : i \in EnvSubjects, n \in EnvNodes}
    \cup {ServiceCANID(i, r, 1, NODE_ID_MASK) : i \in EnvServices, r \in BOOLEAN}
    \cup {ServiceCANID(i, TRUE, NODE_ID_MASK, 1) : i \in EnvServices}

\* A raw frame of the media: its identifier as CANID.try_parse reads it,
\* whether TimestampedUAVCANFrame.try_parse accepts it, the loopback flag.
RawFrames ==
    [identifier : EnvCANIDs, valid : {TRUE}, loopback : BOOLEAN]
    \cup [identifier : {NoCANID}, valid : {TRUE}, loopback : {FALSE}]
    \cup [identifier : {MessageCANID(SUBJECT_ID_MASK, 1)}, valid : {FALSE},
        loopback : {FALSE}]

NoKey == <<"none", MessageDataSpecifier(0), None>>

RTInit ==
    /\ output_registry = <<>>
    /\ input_dispatch_table = [i \in 0.._INPUT_DISPATCH_TABLE_SIZE |-> None]
    /\ sessions = <<>>
    /\ current = <<>>
    /\ rt_last = [op |-> "init", key |-> NoKey, session |-> None,
                  created |-> FALSE, prior |-> None, batch |-> <<>>]

\* CANTransport.__init__, line 25: the one asyncio.Lock of the transport. A
\* lock is named by a tuple, the empty tuple standing for no lock.
_media_lock == <<"_media_lock">>

\* A lock of its own for every output session.
LockPerSession(kind, session) ==
    IF kind \in {"BroadcastOutputSession", "UnicastOutputSession"}
    THEN <<"_media_lock", session>> ELSE <<>>

\* The media_lock argument of the factories: self._media_lock for the output
\* sessions (lines 78 and 93), none for the input sessions (lines 105, 116).
factory_media_lock(kind, session) ==
    IF kind \in {"BroadcastOutputSession", "UnicastOutputSession"}
    THEN _media_lock ELSE <<>>

\* A session as a factory builds it.
NewSession(kind, data_specifier, node_id) ==
    [kind |-> kind, data_specifier |-> data_specifier, node_id |-> node_id,
     media_lock |-> factory_media_lock(kind, Len(sessions) + 1)]

\* _get_output's lookup that never finds the entry.
OutputLookupMiss(registry, key) == None

\* _get_output, lines 140-142: self._output_registry[key], None for KeyError.
OutputLookup(registry, key) ==
    IF key \in DOMAIN registry THEN registry[key] ELSE None

Prior(dir, data_specifier, node_id) ==
    IF <<dir, data_specifier, node_id>> \in DOMAIN current
    THEN current[<<dir, data_specifier, node_id>>] ELSE None

_get_output(data_specifier, destination_node_id, kind) ==
    LET key == <<data_specifier, destination_node_id>>
        found == OutputLookup(output_registry, key)
        session == Len(sessions) + 1
    IN  IF found # None
        THEN /\ UNCHANGED <<output_registry, sessions>>
             /\ current' = DictSet(current,
                               <<"out", data_specifier, destination_node_id>>,
                               found)
             /\ rt_last' = [op |-> kind,
                            key |-> <<"out", data_specifier, destination_node_id>>,
                            session |-> found, created |-> FALSE,
                            prior |-> Prior("out", data_specifier,
                                            destination_node_id),
                            batch |-> <<>>]
        ELSE /\ Len(sessions) < MaxSessions
             /\ sessions' = Append(sessions,
                    NewSession(kind, data_specifier, destination_node_id))
             /\ output_registry' = DictSet(output_registry, key, session)
             /\ current' = DictSet(current,
                               <<"out", data_specifier, destination_node_id>>,
                               session)
             /\ rt_last' = [op |-> kind,
                            key |-> <<"out", data_specifier, destination_node_id>>,
                            session |-> session, created |-> TRUE,
                            prior |-> Prior("out", data_specifier,
                                            destination_node_id),
                            batch |-> <<>>]

_get_input(data_specifier, source_node_id, kind) ==
    LET index == _compute_input_dispatch_table_index(data_specifier,
                                                      source_node_id)
        found == input_dispatch_table[index]
        session == Len(sessions) + 1
    IN  IF found # None
        THEN /\ UNCHANGED <<input_dispatch_table, sessions>>
             /\ current' = DictSet(current,
                               <<"in", data_specifier, source_node_id>>, found)
             /\ rt_last' = [op |-> kind,
                            key |-> <<"in", data_specifier, source_node_id>>,
                            session |-> found, created |-> FALSE,
                            prior |-> Prior("in", data_specifier, source_node_id),
                            batch |-> <<>>]
        ELSE /\ Len(sessions) < MaxSessions
             /\ sessions' = Append(sessions,
                    NewSession(kind, data_specifier, source_node_id))
             /\ input_dispatch_table' =
                    [input_dispatch_table EXCEPT ![index] = session]
             /\ current' = DictSet(current,
                               <<"in", data_specifier, source_node_id>>, session)
             /\ rt_last' = [op |-> kind,
                            key |-> <<"in", data_specifier, source_node_id>>,
                            session |-> session, created |-> TRUE,
                            prior |-> Prior("in", data_specifier, source_node_id),
                            batch |-> <<>>]

get_broadcast_output(data_specifier) ==
    /\ _get_output(data_specifier, None, "BroadcastOutputSession")
    /\ UNCHANGED input_dispatch_table
    /\ UNCHANGED <<tm_vars, ni_vars, ix_vars, st_vars, bt_vars, sd_vars>>

get_unicast_output(data_specifier, destination_node_id) ==
    /\ _get_output(data_specifier, destination_node_id, "UnicastOutputSession")
    /\ UNCHANGED input_dispatch_table
    /\ UNCHANGED <<tm_vars, ni_vars, ix_vars, st_vars, bt_vars, sd_vars>>

get_promiscuous_input(data_specifier) ==
    /\ _get_input(data_specifier, None, "PromiscuousInputSession")
    /\ UNCHANGED output_registry
    /\ UNCHANGED <<tm_vars, ni_vars, ix_vars, st_vars, bt_vars, sd_vars>>

get_selective_input(data_specifier, source_node_id) ==
    /\ _get_input(data_specifier, source_node_id, "SelectiveInputSession")
    /\ UNCHANGED output_registry
    /\ UNCHANGED <<tm_vars, ni_vars, ix_vars, st_vars, bt_vars, sd_vars>>

\* The output finalizer that leaves the entry in place.
OutputFinalizerKeeps(registry, key) == registry

\* _get_output.finalizer: del self._output_registry[key], LookupError ignored.
OutputFinalizer(registry, key) == DictDel(registry, key)

\* _get_input.finalizer: self._input_dispatch_table[index] = None
InputFinalizer(table, index) == [table EXCEPT ![index] = None]

IsOutput(s) ==
    sessions[s].kind \in {"BroadcastOutputSession", "UnicastOutputSession"}

\* Closing session s runs the finalizer it was built with; a session can be
\* closed again, which runs the finalizer again.
session_close(s) ==
    LET ds == sessions[s].data_specifier
        nid == sessions[s].node_id
        dir == IF IsOutput(s) THEN "out" ELSE "in"
    IN  /\ IF IsOutput(s)
           THEN /\ output_registry' = OutputFinalizer(output_registry, <<ds, nid>>)
                /\ UNCHANGED input_dispatch_table
           ELSE /\ input_dispatch_table' =
                       InputFinalizer(input_dispatch_table,
                           _compute_input_dispatch_table_index(ds, nid))
                /\ UNCHANGED output_registry
        /\ current' = DictDel(current, <<dir, ds, nid>>)
        /\ rt_last' = [op |-> "close", key |-> <<dir, ds, nid>>, session |-> s,
                       created |-> FALSE, prior |-> Prior(dir, ds, nid),
                       batch |-> <<>>]
        /\ UNCHANGED sessions
        /\ UNCHANGED <<tm_vars, ni_vars, ix_vars, st_vars, bt_vars, sd_vars>>

\* The lookups of _handle_received_frame without the promiscuous slot.
DispatchNodeIdsExactOnly(exact_source_node_id, order) ==
    <<exact_source_node_id>>

\* _handle_received_frame, line 186: for nid in {exact_source_node_id, None}.
\* The set is iterated in either order.
DispatchNodeIds(exact_source_node_id, order) ==
    IF exact_source_node_id = None THEN <<None>>
    ELSE IF order = 1 THEN <<exact_source_node_id, None>>
    ELSE <<None, exact_source_node_id>>

\* The sessions _handle_received_frame calls push_frame on, in call order.
_handle_received_frame(can_id, order) ==
    LET data_spec == to_input_data_specifier(can_id)
        nids == DispatchNodeIds(can_id.source_node_id, order)
        found == [i \in 1..Len(nids) |->
                     input_dispatch_table[
                         _compute_input_dispatch_table_index(data_spec, nids[i])]]
    IN  SelectSeq(found, LAMBDA x : x # None)

\* The destination of a loopback frame taken from the source field.
LoopbackDestinationFromSource(can_id) == can_id.source_node_id

\* _handle_loopback_frame, lines 195-199
LoopbackDestination(can_id) ==
    IF can_id.kind = "service" THEN can_id.destination_node_id ELSE None

\* The sessions _handle_loopback_frame calls handle_loopback_frame on.
_handle_loopback_frame(can_id) ==
    LET data_spec == to_output_data_specifier(can_id)
        dest_nid == LoopbackDestination(can_id)
    IN  IF <<data_spec, dest_nid>> \in DOMAIN output_registry
        THEN <<output_registry[<<data_spec, dest_nid>>]>>
        ELSE <<>>

\* What can go wrong in one turn of the loop of _on_frames_received: nothing,
\* or an exception raised by CANID.try_parse, by
\* TimestampedUAVCANFrame.try_parse, by the first or the second push_frame
\* call, or by handle_loopback_frame.
Faults ==
    {"none", "CANID.try_parse", "TimestampedUAVCANFrame.try_parse",
     "push_frame 1", "push_frame 2", "handle_loopback_frame"}

\* One turn of the loop of _on_frames_received, lines 164-172: the sessions
\* whose push_frame and handle_loopback_frame were called, in call order, and
\* whether the turn ended with an exception.
ProcessFrame(raw_frame, order, fault) ==
    LET cid == raw_frame.identifier
        parsed == fault # "CANID.try_parse" /\ cid # NoCANID
        handled == /\ parsed
                   /\ fault # "TimestampedUAVCANFrame.try_parse"
                   /\ raw_frame.valid
        targets == IF handled /\ ~raw_frame.loopback
                   THEN _handle_received_frame(cid, order) ELSE <<>>
        loops == IF handled /\ raw_frame.loopback
                 THEN _handle_loopback_frame(cid) ELSE <<>>
        npush == IF fault = "push_frame 1" THEN 1
                 ELSE IF fault = "push_frame 2" THEN 2 ELSE 0
        push_raises == npush > 0 /\ Len(targets) >= npush
    IN  [frame |-> raw_frame,
         pushed |-> IF push_raises THEN SubSeq(targets, 1, npush)
                    ELSE targets,
         looped |-> loops,
         raised |-> \/ fault = "CANID.try_parse"
                    \/ parsed /\ fault = "TimestampedUAVCANFrame.try_parse"
                    \/ push_raises
                    \/ fault = "handle_loopback_frame" /\ loops # <<>>]

\* _on_frames_received when no call made in the loop raises.
_on_frames_received(frames, orders) ==
    LET batch == [i \in 1..Len(frames) |->
                     ProcessFrame(frames[i], orders[i], "none")]
    IN  /\ rt_last' = [op |-> "_on_frames_received", key |-> NoKey,
                       session |-> None, created |-> FALSE, prior |-> None,
                       batch |-> batch]
        /\ UNCHANGED <<output_registry, input_dispatch_table, sessions,
                       current>>
        /\ UNCHANGED <<tm_vars, ni_vars, ix_vars, st_vars, bt_vars, sd_vars>>

Batches == UNION {[1..n -> RawFrames] : n \in 1..MaxBatch}

RTNext ==
    \/ \E ds \in EnvDataSpecifiers : get_broadcast_output(ds)
    \/ \E ds \in EnvDataSpecifiers, n \in EnvNodes : get_unicast_output(ds, n)
    \/ \E ds \in EnvDataSpecifiers : get_promiscuous_input(ds)
    \/ \E ds \in EnvDataSpecifiers, n \in EnvNodes : get_selective_input(ds, n)
    \/ \E s \in DOMAIN sessions : session_close(s)
    \/ \E frames \in Batches :
           \E orders \in [DOMAIN frames -> 1..2] :
               \* the order of the two lookups shows only when both find a
               \* session
               /\ \A i \in DOMAIN frames :
                      orders[i] = 2 =>
                          Len(ProcessFrame(frames[i], 1, "none").pushed) = 2
               /\ _on_frames_received(frames, orders)

(***************************************************************************)
(* CANTransport._on_frames_received with exceptions and frame logs         *)
(***************************************************************************)
\* The loop runs only until a turn raises.
TurnsRunUntilRaise(turns) ==
    IF \E k \in DOMAIN turns : turns[k].raised
    THEN CHOOSE k \in DOMAIN turns :
             turns[k].raised /\ \A j \in 1..(k - 1) : ~turns[j].raised
    ELSE Len(turns)

\* _on_frames_received, lines 163-174: the try statement is inside the for
\* loop and catches Exception, so every turn runs whatever the turns before
\* it raised.
TurnsRun(turns) == Len(turns)

\* The frames of a batch taken last first.
LastFrameFirst(frames) == [k \in 1..Len(frames) |-> Len(frames) + 1 - k]

\* _on_frames_received, line 163: for raw_frame in frames, as the indices of
\* the frames in the order of the turns.
for_raw_frame_in(frames) == [k \in 1..Len(frames) |-> k]

\* push_log[s], empty for a session without an entry.
PushLog(s) == IF s \in DOMAIN push_log THEN push_log[s] ELSE <<>>

\* The media calls _on_frames_received(frames); turns[i] is the turn of the
\* loop for frames[i], for one lookup order and one fault. Every frame is
\* logged as reported, and every push_frame call as made, with the position
\* of its frame in the log.
media_reports_frames(frames, turns) ==
    LET turn_order == for_raw_frame_in(frames)
        all == [k \in 1..Len(frames) |-> turns[turn_order[k]]]
        batch == SubSeq(all, 1, TurnsRun(all))
        pushes(s) ==
            LET mine == SelectSeq([k \in 1..Len(batch) |-> k],
                                  LAMBDA k : s \in Range(batch[k].pushed))
            IN  [k \in 1..Len(mine) |->
                    [n |-> Len(media_log) + turn_order[mine[k]],
                     frame |-> batch[mine[k]].frame]]
    IN  /\ Len(media_log) + Len(frames) <= MaxReported
        /\ media_log' = media_log \o frames
        /\ push_log' = [s \in DOMAIN sessions |-> PushLog(s) \o pushes(s)]
        /\ rt_last' = [op |-> "_on_frames_received", key |-> NoKey,
                       session |-> None, created |-> FALSE, prior |-> None,
                       batch |-> batch, frames |-> frames,
                       propagated |-> Len(batch) < Len(all)]
        /\ UNCHANGED <<output_registry, input_dispatch_table, sessions,
                       current>>
        /\ UNCHANGED <<tm_vars, ni_vars, ix_vars, st_vars, sd_vars>>

\* The data specifier of the sessions and the frames of the batches: the
\* subject from either node, received or looped back.
BatchDataSpecifiers == {MessageDataSpecifier(SUBJECT_ID_MASK)}

BatchFrames ==
    [identifier : {MessageCANID(SUBJECT_ID_MASK, n) : n \in EnvNodes},
     valid : {TRUE}, loopback : {FALSE}]
    \cup [identifier : {MessageCANID(SUBJECT_ID_MASK, 1)}, valid : {TRUE},
          loopback : {TRUE}]

\* The turns of the loop for one frame: one for every lookup order and every
\* fault that can be told apart (the order of the two lookups shows only when
\* both find a session, a fault only when the call that raises is made).
Turns(raw_frame) ==
    {ProcessFrame(raw_frame, o[1], o[2]) :
        o \in {o \in (1..2) \X Faults :
                 /\ o[1] = 2 =>
                        Len(ProcessFrame(raw_frame, 1, "none").pushed) = 2
                 /\ o[2] # "none" =>
                        ProcessFrame(raw_frame, o[1], o[2]).raised}}

\* A batch of one frame, a batch of two frames.
BTNext ==
    \/ \E ds \in BatchDataSpecifiers : get_broadcast_output(ds)
    \/ \E ds \in BatchDataSpecifiers : get_promiscuous_input(ds)
    \/ \E ds \in BatchDataSpecifiers, n \in EnvNodes :
           get_selective_input(ds, n)
    \/ /\ Len(media_log) + 1 <= MaxReported
       /\ \E f1 \in BatchFrames :
              \E t1 \in Turns(f1) : media_reports_frames(<<f1>>, <<t1>>)
    \/ /\ Len(media_log) + 2 <= MaxReported
       /\ \E turns \in {[f \in BatchFrames |-> Turns(f)]} :
              \E f1 \in BatchFrames, f2 \in BatchFrames :
                  \E t1 \in turns[f1], t2 \in turns[f2] :
                      media_reports_frames(<<f1, f2>>, <<t1, t2>>)

(***************************************************************************)
(* Output sessions sending under the media lock                            *)
(***************************************************************************)
\* The number of frames of a transfer that is sent.
TransferFrames == {1, 2}

\* The send that holds a lock, None when it is free.
Holder(lock) == IF lock \in DOMAIN media_lock THEN media_lock[lock] ELSE None

\* OutputSession.send(transfer) is called on session s: the coroutine is
\* created and waits for its session's media lock.
session_send(s, nframes) ==
    /\ s \in DOMAIN sessions
    /\ IsOutput(s)
    /\ Len(sends) < MaxSends
    /\ sends' = Append(sends, [session |-> s, nframes |-> nframes,
                               emitted |-> 0, pc |-> "acquire"])
    /\ UNCHANGED <<media_lock, wire>>
    /\ UNCHANGED <<rt_vars, tm_vars, ni_vars, ix_vars, st_vars, bt_vars>>

\* async with self._media_lock: the lock is taken when nobody holds it.
lock_acquire(i) ==
    /\ i \in DOMAIN sends
    /\ sends[i].pc = "acquire"
    /\ Holder(sessions[sends[i].session].media_lock) = None
    /\ media_lock' = DictSet(media_lock,
                            sessions[sends[i].session].media_lock, i)
    /\ sends' = [sends EXCEPT ![i].pc = "emit"]
    /\ UNCHANGED wire
    /\ UNCHANGED <<rt_vars, tm_vars, ni_vars, ix_vars, st_vars, bt_vars>>

\* await media.send(frame): the next frame of the transfer goes onto the
\* wire; other coroutines run between two frames.
emit_frame(i) ==
    /\ i \in DOMAIN sends
    /\ sends[i].pc = "emit"
    /\ sends[i].emitted < sends[i].nframes
    /\ wire' = Append(wire, [send |-> i, index |-> sends[i].emitted])
    /\ sends' = [sends EXCEPT ![i].emitted = @ + 1]
    /\ UNCHANGED media_lock
    /\ UNCHANGED <<rt_vars, tm_vars, ni_vars, ix_vars, st_vars, bt_vars>>

\* The end of the async with block: the lock is released after the last
\* frame.
lock_release(i) ==
    /\ i \in DOMAIN sends
    /\ sends[i].pc = "emit"
    /\ sends[i].emitted = sends[i].nframes
    /\ media_lock' = DictDel(media_lock,
                            sessions[sends[i].session].media_lock)
    /\ sends' = [sends EXCEPT ![i].pc = "done"]
    /\ UNCHANGED wire
    /\ UNCHANGED <<rt_vars, tm_vars, ni_vars, ix_vars, st_vars, bt_vars>>

\* The output sessions of one subject: the broadcast session and a unicast
\* session per node.
SendDataSpecifiers == {MessageDataSpecifier(SUBJECT_ID_MASK)}

SDNext ==
    \/ \E ds \in SendDataSpecifiers : get_broadcast_output(ds)
    \/ \E ds \in SendDataSpecifiers, n \in EnvNodes : get_unicast_output(ds, n)
    \/ \E s \in 1..MaxSessions, nframes \in TransferFrames :
           session_send(s, nframes)
    \/ \E i \in 1..MaxSends : lock_acquire(i)
    \/ \E i \in 1..MaxSends : emit_frame(i)
    \/ \E i \in 1..MaxSends : lock_release(i)

(***************************************************************************)
(* CANTransport.set_local_node_id                                          *)
(***************************************************************************)
NIInit ==
    /\ local_node_id = None
    /\ calls = <<>>
    /\ retransmission = 0

\* The test of line 54 by truth value: node id 0 counts as unassigned.
NodeIdFalsy(node_id) == node_id = None \/ node_id = 0

\* line 54: self._local_node_id is None
NodeIdUnassigned(node_id) == node_id = None

NodeIdArgs == {0 - 1, 0, 1, NODE_ID_MASK, NODE_ID_MASK + 1}

\* A call runs to its first await: it assigns the node id and starts
\* media.enable_automatic_retransmission, or it raises.
set_local_node_id(node_id) ==
    /\ Len(calls) < MaxCalls
    /\ UNCHANGED <<rt_vars, tm_vars, ix_vars, st_vars, bt_vars, sd_vars>>
    /\ IF NodeIdUnassigned(local_node_id)
       THEN IF 0 <= node_id /\ node_id <= NODE_ID_MASK
            THEN /\ local_node_id' = node_id
                 /\ retransmission' = retransmission + 1
                 /\ calls' = Append(calls,
                        [node_id |-> node_id, prior |-> local_node_id,
                         pc |-> "enable_automatic_retransmission",
                         outcome |-> "pending"])
            ELSE /\ calls' = Append(calls,
                        [node_id |-> node_id, prior |-> local_node_id,
                         pc |-> "done", outcome |-> "ValueError"])
                 /\ UNCHANGED <<local_node_id, retransmission>>
       ELSE /\ calls' = Append(calls,
                   [node_id |-> node_id, prior |-> local_node_id,
                    pc |-> "done",
                    outcome |-> "InvalidTransportConfigurationError"])
            /\ UNCHANGED <<local_node_id, retransmission>>

\* The media call of call i returns or raises; _reconfigure_acceptance_filters
\* is empty, so a return ends the call.
enable_automatic_retransmission_done(i, raised) ==
    /\ calls[i].pc = "enable_automatic_retransmission"
    /\ calls' = [calls EXCEPT ![i] =
           [@ EXCEPT !.pc = "done",
                     !.outcome = IF raised THEN "MediaError" ELSE "ok"]]
    /\ UNCHANGED <<local_node_id, retransmission>>
    /\ UNCHANGED <<rt_vars, tm_vars, ix_vars, st_vars, bt_vars, sd_vars>>

NINext ==
    \/ \E n \in NodeIdArgs : set_local_node_id(n)
    \/ \E i \in DOMAIN calls, raised \in BOOLEAN :
           enable_automatic_retransmission_done(i, raised)

(***************************************************************************)
(* _compute_input_dispatch_table_index on pairs of legal inputs            *)
(***************************************************************************)
\* Every data specifier and every source node id or None (lines 257-266).
LegalDataSpecifiers ==
    {MessageDataSpecifier(i) : i \in 0..SUBJECT_ID_MASK}
    \cup {ServiceDataSpecifier(i, r) :
             i \in 0..SERVICE_ID_MASK, r \in {"CLIENT", "SERVER"}}

LegalInputs ==
    [data_specifier : LegalDataSpecifiers,
     source_node_id : (0..NODE_ID_MASK) \cup {None}]

IXIdle ==
    /\ ix_in = <<>>
    /\ ix_out = <<>>

IXInit ==
    /\ ix_in \in LegalInputs \X LegalInputs
    /\ ix_out = <<>>

compute_indices ==
    /\ ix_out = <<>>
    /\ ix_in # <<>>
    /\ ix_out' = <<_compute_input_dispatch_table_index(
                       ix_in[1].data_specifier, ix_in[1].source_node_id),
                   _compute_input_dispatch_table_index(
                       ix_in[2].data_specifier, ix_in[2].source_node_id)>>
    /\ UNCHANGED ix_in
    /\ UNCHANGED <<rt_vars, tm_vars, ni_vars, st_vars, bt_vars, sd_vars>>

(***************************************************************************)
(* Bit strings (uavcan/transport.py)                                       *)
(*                                                                         *)
(* A bit string is a Python str: a sequence of the characters "0" and "1", *)
(* and "-" where format() renders a negative number.                       *)
(***************************************************************************)
RECURSIVE Pow2(_)
Pow2(n) == IF n = 0 THEN 1 ELSE 2 * Pow2(n - 1)

\* The binary digits of a natural number, most significant first.
RECURSIVE Digits(_)
Digits(n) ==
    IF n < 2 THEN <<IF n = 1 THEN "1" ELSE "0">>
    ELSE Append(Digits(n \div 2), IF n % 2 = 1 THEN "1" ELSE "0")

Zeros(n) == [i \in 1..n |-> "0"]

\* format(value, "0<width>b"): zero padding to the width, which counts the
\* sign; a number that needs more characters gets them.
format(value, width) ==
    LET sign == IF value < 0 THEN <<"-">> ELSE <<>>
        digits == Digits(IF value < 0 THEN 0 - value ELSE value)
        pad == width - Len(sign) - Len(digits)
    IN  sign \o Zeros(IF pad > 0 THEN pad ELSE 0) \o digits

RECURSIVE Binary(_)
Binary(s) ==
    IF s = <<>> THEN 0
    ELSE 2 * Binary(SubSeq(s, 1, Len(s) - 1))
             + (IF s[Len(s)] = "1" THEN 1 ELSE 0)

\* int(s, 2) raises ValueError for the empty string and for a sign that is
\* not in front of at least one digit.
IntRaises(s) ==
    \/ s = <<>>
    \/ s = <<"-">>
    \/ \E i \in 2..Len(s) : s[i] = "-"

\* int(s, 2)
int(s) == IF s[1] = "-" THEN 0 - Binary(Tail(s)) ELSE Binary(s)

\* s[a:b] of Python for 0 <= a, 0 <= b (indices from 0, b exclusive).
Slice(s, a, b) ==
    SubSeq(s, a + 1, IF b < Len(s) THEN b ELSE Len(s))

\* "".join([s[i:i + 8] for i in range(0, len(s), 8)][::-1])
RECURSIVE ChunksReversed(_)
ChunksReversed(s) ==
    IF Len(s) <= 8 THEN s
    ELSE ChunksReversed(SubSeq(s, 9, Len(s))) \o SubSeq(s, 1, 8)

\* be_from_le_bits raises ValueError when the string is too short.
NotEnoughBits(s, bitlen) == Len(s) < bitlen

\* be_from_le_bits, lines 82-88, for a string that is long enough.
be_from_le_bits(s, bitlen) == ChunksReversed(Slice(s, 0, bitlen))

\* "".join([s[max(0, i - 8):i] for i in range(len(s), 0, -8)])
RECURSIVE ChunksFromEnd(_)
ChunksFromEnd(s) ==
    IF Len(s) <= 8 THEN s
    ELSE SubSeq(s, Len(s) - 7, Len(s))
             \o ChunksFromEnd(SubSeq(s, 1, Len(s) - 8))

\* le_from_be_bits, lines 91-97, for a string that is long enough: a longer
\* string loses its first characters.
le_from_be_bits(s, bitlen) ==
    ChunksFromEnd(IF Len(s) > bitlen
                  THEN SubSeq(s, Len(s) - bitlen + 1, Len(s)) ELSE s)

\* int(math.ceil(math.log(n, 2))) for n >= 1, in exact arithmetic.
RECURSIVE CeilLog2(_)
CeilLog2(n) == IF n <= 1 THEN 0 ELSE 1 + CeilLog2((n + 1) \div 2)

\* union_tag_len, line 105
union_tag_len(x) == IF CeilLog2(Len(x)) # 0 THEN CeilLog2(Len(x)) ELSE 1

\* lines 343 and 363: the width of the length field of a dynamic array
count_width(max_size) ==
    IF CeilLog2(max_size) # 0 THEN CeilLog2(max_size) ELSE 1

(***************************************************************************)
(* Type descriptors (uavcan.dsdl)                                          *)
(***************************************************************************)
\* kind: "boolean", "unsigned", "signed"; cast_mode: "saturated", "truncated"
PrimitiveType(kind, bitlen, cast_mode) ==
    [cat |-> "primitive", kind |-> kind, bitlen |-> bitlen,
     cast_mode |-> cast_mode]

VoidType(bitlen) == [cat |-> "void", bitlen |-> bitlen]

\* mode: "static", "dynamic"
ArrayType(value_type, mode, max_size) ==
    [cat |-> "array", value_type |-> value_type, mode |-> mode,
     max_size |-> max_size]

\* fields: the field types in order (a field is named by its position)
CompoundType(fields, union) ==
    [cat |-> "compound", fields |-> fields, union |-> union]

\* PrimitiveType.value_range: <<min, max>>
value_range(dtype) ==
    IF dtype.kind = "boolean" THEN <<0, 1>>
    ELSE IF dtype.kind = "unsigned" THEN <<0, Pow2(dtype.bitlen) - 1>>
    ELSE <<0 - Pow2(dtype.bitlen - 1), Pow2(dtype.bitlen - 1) - 1>>

(***************************************************************************)
(* Values: PrimitiveValue, VoidValue, ArrayValue, CompoundValue            *)
(***************************************************************************)
\* cast, lines 157-173, for integers.
cast(value, dtype) ==
    IF dtype.cast_mode = "saturated"
    THEN IF value > value_range(dtype)[2] THEN value_range(dtype)[2]
         ELSE IF value < value_range(dtype)[1] THEN value_range(dtype)[1]
         ELSE value
    ELSE value % Pow2(dtype.bitlen)

\* PrimitiveValue.value, the setter (lines 235-246), for an integer.
value_setter(obj, new_value) ==
    [obj EXCEPT !._bits =
        IF obj._type.kind = "boolean"
        THEN IF new_value # 0 THEN <<"1">> ELSE <<"0">>
        ELSE format(cast(new_value, obj._type), obj._type.bitlen)]

\* PrimitiveValue.value, the getter (lines 213-226), of an object whose _bits
\* is not empty and that int() accepts.
value_getter(obj) ==
    LET int_value == int(obj._bits)
    IN  IF /\ obj._type.kind = "signed"
           /\ int_value >= Pow2(obj._type.bitlen - 1)
        THEN 0 - (Pow2(obj._type.bitlen) - int_value)
        ELSE int_value

RECURSIVE ArrayValue(_, _)
RECURSIVE CompoundValue(_, _)

\* PrimitiveValue.__init__: self.value = 0
PrimitiveValue(_uavcan_type) ==
    value_setter([cat |-> "primitive", _type |-> _uavcan_type, _bits |-> <<>>],
                 0)

VoidValue(_uavcan_type) == [cat |-> "void", _type |-> _uavcan_type]

\* ArrayValue.__item_ctor (lines 265-270): a PrimitiveValue, or a
\* CompoundValue with its default _tao=True. (For an element type that is an
\* array the constructor call lacks the _tao argument and raises TypeError:
\* arrays of arrays cannot be built.)
item_ctor(type) ==
    IF type.value_type.cat = "primitive"
    THEN PrimitiveValue(type.value_type)
    ELSE CompoundValue(type.value_type, TRUE)

\* ArrayValue.__init__, lines 260-275
ArrayValue(_uavcan_type, _tao) ==
    LET value_bitlen ==
            IF _uavcan_type.value_type.cat \in {"primitive", "void"}
            THEN _uavcan_type.value_type.bitlen ELSE 0
    IN  [cat |-> "array", _type |-> _uavcan_type,
         _tao |-> IF value_bitlen >= 8 THEN _tao ELSE FALSE,
         items |-> IF _uavcan_type.mode = "static"
                   THEN [i \in 1.._uavcan_type.max_size |->
                            item_ctor(_uavcan_type)]
                   ELSE <<>>]

\* CompoundValue.__init__, lines 391-428; _union_field 0 is None.
CompoundValue(_uavcan_type, _tao) ==
    LET source_fields == _uavcan_type.fields
        atao(idx) == idx = Len(source_fields) /\ _tao
    IN  [cat |-> "compound", _type |-> _uavcan_type,
         _is_union |-> _uavcan_type.union,
         _union_field |-> 0,
         _fields |-> [idx \in 1..Len(source_fields) |->
             CASE source_fields[idx].cat = "void" ->
                      VoidValue(source_fields[idx])
               [] source_fields[idx].cat = "primitive" ->
                      PrimitiveValue(source_fields[idx])
               [] source_fields[idx].cat = "array" ->
                      ArrayValue(source_fields[idx], atao(idx))
               [] source_fields[idx].cat = "compound" ->
                      CompoundValue(source_fields[idx], atao(idx))]]

\* A new value object of any type.
NewValue(type, _tao) ==
    CASE type.cat = "void" -> VoidValue(type)
      [] type.cat = "primitive" -> PrimitiveValue(type)
      [] type.cat = "array" -> ArrayValue(type, _tao)
      [] type.cat = "compound" -> CompoundValue(type, _tao)

(***************************************************************************)
(* _pack and _unpack                                                       *)
(***************************************************************************)
\* "".join(parts)
RECURSIVE Join(_)
Join(parts) ==
    IF parts = <<>> THEN <<>> ELSE Head(parts) \o Join(Tail(parts))

\* ArrayValue._pack, lines 363-364: format(len(self), "0<count_width>b")
CountField(n, max_size) == format(n, count_width(max_size))

RECURSIVE _pack(_)
_pack(obj) ==
    CASE obj.cat = "void" -> Zeros(obj._type.bitlen)
      [] obj.cat = "primitive" ->
             \* BaseValue._pack, lines 189-193
             IF obj._bits # <<>>
             THEN le_from_be_bits(obj._bits, obj._type.bitlen)
             ELSE Zeros(obj._type.bitlen)
      [] obj.cat = "array" ->
             \* ArrayValue._pack, lines 353-365
             LET body == Join([i \in DOMAIN obj.items |-> _pack(obj.items[i])])
                 missing == obj._type.max_size - Len(obj.items)
             IN  IF obj._type.mode = "static"
                 THEN body \o
                      (IF missing > 0
                       THEN Join([i \in 1..missing |->
                                     _pack(item_ctor(obj._type))])
                       ELSE <<>>)
                 ELSE IF obj._tao THEN body
                 ELSE CountField(Len(obj.items), obj._type.max_size) \o body
      [] obj.cat = "compound" ->
             \* CompoundValue._pack, lines 527-534
             IF obj._is_union
             THEN LET field == IF obj._union_field # 0
                               THEN obj._union_field ELSE 1
                  IN  format(field - 1, union_tag_len(obj._fields))
                          \o _pack(obj._fields[field])
             ELSE Join([i \in DOMAIN obj._fields |-> _pack(obj._fields[i])])

\* What an _unpack call leaves: the object, the rest of the stream, and the
\* exception it raised ("" for none).
Unpacked(obj, stream, error) ==
    [obj |-> obj, stream |-> stream, error |-> error]

RECURSIVE _unpack(_, _)
RECURSIVE UnpackEach(_, _, _, _)
RECURSIVE UnpackWhile(_, _, _)
RECURSIVE UnpackCount(_, _, _, _)

\* for i in range(n): stream = objs[i]._unpack(stream)
UnpackEach(objs, stream, i, n) ==
    IF i > n THEN Unpacked(objs, stream, "")
    ELSE IF i > Len(objs) THEN Unpacked(objs, stream, "IndexError")
    ELSE LET r == _unpack(objs[i], stream)
         IN  IF r.error # ""
             THEN Unpacked([objs EXCEPT ![i] = r.obj], r.stream, r.error)
             ELSE UnpackEach([objs EXCEPT ![i] = r.obj], r.stream, i + 1, n)

\* lines 336-339: while len(stream) >= 8, unpack and append a new item
UnpackWhile(type, items, stream) ==
    IF Len(stream) < 8 THEN Unpacked(items, stream, "")
    ELSE LET r == _unpack(item_ctor(type), stream)
         IN  IF r.error # "" THEN Unpacked(items, r.stream, r.error)
             ELSE UnpackWhile(type, Append(items, r.obj), r.stream)

\* lines 346-349: for i in range(count), unpack and append a new item
UnpackCount(type, items, stream, count) ==
    IF count <= 0 THEN Unpacked(items, stream, "")
    ELSE LET r == _unpack(item_ctor(type), stream)
         IN  IF r.error # "" THEN Unpacked(items, r.stream, r.error)
             ELSE UnpackCount(type, Append(items, r.obj), r.stream, count - 1)

_unpack(obj, stream) ==
    CASE obj.cat = "void" ->
             Unpacked(obj, Slice(stream, obj._type.bitlen, Len(stream)), "")
      [] obj.cat = "primitive" ->
             \* BaseValue._unpack, lines 182-187
             IF obj._type.bitlen # 0
             THEN IF NotEnoughBits(stream, obj._type.bitlen)
                  THEN Unpacked(obj, stream, "ValueError")
                  ELSE Unpacked(
                           [obj EXCEPT !._bits =
                               be_from_le_bits(stream, obj._type.bitlen)],
                           Slice(stream, obj._type.bitlen, Len(stream)), "")
             ELSE Unpacked(obj, stream, "")
      [] obj.cat = "array" ->
             \* ArrayValue._unpack, lines 330-351
             IF obj._type.mode = "static"
             THEN LET r == UnpackEach(obj.items, stream, 1, obj._type.max_size)
                  IN  Unpacked([obj EXCEPT !.items = r.obj], r.stream, r.error)
             ELSE IF obj._tao
             THEN LET r == UnpackWhile(obj._type, <<>>, stream)
                  IN  Unpacked([obj EXCEPT !.items = r.obj],
                               IF r.error = "" THEN <<>> ELSE r.stream, r.error)
             ELSE LET width == count_width(obj._type.max_size)
                      field == Slice(stream, 0, width)
                  IN  IF IntRaises(field)
                      THEN Unpacked([obj EXCEPT !.items = <<>>], stream,
                                    "ValueError")
                      ELSE LET r == UnpackCount(obj._type, <<>>,
                                        Slice(stream, width, Len(stream)),
                                        int(field))
                           IN  Unpacked([obj EXCEPT !.items = r.obj],
                                        r.stream, r.error)
      [] obj.cat = "compound" ->
             \* CompoundValue._unpack, lines 517-525
             IF obj._is_union
             THEN LET tag_len == union_tag_len(obj._fields)
                      tag == Slice(stream, 0, tag_len)
                      \* list(self._fields.keys())[int(tag, 2)]
                      key == IF int(tag) < 0
                             THEN Len(obj._fields) + int(tag) + 1
                             ELSE int(tag) + 1
                  IN  IF IntRaises(tag)
                      THEN Unpacked(obj, stream, "ValueError")
                      ELSE IF key < 1 \/ key > Len(obj._fields)
                      THEN Unpacked(obj, stream, "IndexError")
                      ELSE LET r == _unpack(obj._fields[key],
                                        Slice(stream, tag_len, Len(stream)))
                           IN  Unpacked(
                                   [obj EXCEPT !._union_field = key,
                                               !._fields[key] = r.obj],
                                   r.stream, r.error)
             ELSE LET r == UnpackEach(obj._fields, stream, 1, Len(obj._fields))
                  IN  Unpacked([obj EXCEPT !._fields = r.obj],
                               r.stream, r.error)

(***************************************************************************)
(* Serialization round trip: values of a menu of types                     *)
(***************************************************************************)
\* The integers assigned to a primitive: in range, at both ends of the range
\* and one beyond each end.
Samples(dtype) ==
    IF dtype.kind = "boolean" THEN {0, 1}
    ELSE {value_range(dtype)[1] - 1, value_range(dtype)[1],
          value_range(dtype)[2], value_range(dtype)[2] + 1}

\* The objects that assignments make of a new value of the type:
\* PrimitiveValue.value = x, ArrayValue.append(x) up to max_size times,
\* item assignment, assignment to the fields of a composite.
RECURSIVE LegalValues(_, _)
LegalValues(type, _tao) ==
    LET new == NewValue(type, _tao)
    IN  CASE type.cat = "void" -> {new}
          [] type.cat = "primitive" ->
                 {value_setter(new, x) : x \in Samples(type)}
          [] type.cat = "array" ->
                 LET elements ==
                         IF type.value_type.cat = "primitive"
                         THEN {value_setter(item_ctor(type), x) :
                                  x \in Samples(type.value_type)}
                         ELSE LegalValues(type.value_type, TRUE)
                     lengths == IF type.mode = "static" THEN {type.max_size}
                                ELSE 0..type.max_size
                 IN  {[new EXCEPT !.items = f] :
                         f \in UNION {[1..n -> elements] : n \in lengths}}
          [] type.cat = "compound" ->
                 LET n == Len(type.fields)
                     of(i) == LegalValues(type.fields[i], i = n /\ _tao)
                 IN  IF type.union
                     THEN {new} \cup
                          UNION {{[new EXCEPT !._union_field = i,
                                              !._fields[i] = v] : v \in of(i)} :
                                 i \in 1..n}
                     ELSE {[new EXCEPT !._fields = f] :
                              f \in {g \in [1..n -> UNION {of(i) : i \in 1..n}] :
                                        \A i \in 1..n : g[i] \in of(i)}}

uint2 == PrimitiveType("unsigned", 2, "saturated")
uint8 == PrimitiveType("unsigned", 8, "saturated")
uint9 == PrimitiveType("unsigned", 9, "truncated")
int3 == PrimitiveType("signed", 3, "saturated")
int3t == PrimitiveType("signed", 3, "truncated")
bool == PrimitiveType("boolean", 1, "saturated")

\* uint8[<=1] as the only field: a tail array inside the composite
Tail1 == CompoundType(<<ArrayType(uint8, "dynamic", 1)>>, FALSE)

\* The types whose values are packed and unpacked.
TypeMenu ==
    {uint2, uint9, int3, int3t, bool,
     ArrayType(uint2, "static", 2),
     ArrayType(uint8, "dynamic", 2),
     ArrayType(uint2, "dynamic", 2),
     ArrayType(uint2, "dynamic", 3),
     ArrayType(Tail1, "dynamic", 2),
     CompoundType(<<bool, VoidType(3), ArrayType(uint8, "dynamic", 2)>>, FALSE),
     CompoundType(<<Tail1, int3>>, FALSE),
     CompoundType(<<uint2, ArrayType(bool, "dynamic", 3), bool>>, TRUE)}

SRIdle ==
    /\ sr_value = <<>>
    /\ sr_tao = FALSE
    /\ sr_stream = <<>>
    /\ sr_unpacked = <<>>
    /\ sr_pc = "idle"

SRInit ==
    /\ sr_tao \in BOOLEAN
    /\ sr_value \in UNION {LegalValues(t, sr_tao) : t \in TypeMenu}
    /\ sr_stream = <<>>
    /\ sr_unpacked = <<>>
    /\ sr_pc = "value"

\* sr_value._pack()
pack ==
    /\ sr_pc = "value"
    /\ sr_stream' = _pack(sr_value)
    /\ sr_pc' = "packed"
    /\ UNCHANGED <<sr_value, sr_tao, sr_unpacked>>
    /\ UNCHANGED <<rt_vars, tm_vars, ni_vars, ix_vars, ar_vars, xf_vars,
                   bt_vars, sd_vars, un_vars>>

\* A new object of the same type and _tao unpacks the stream.
unpack ==
    /\ sr_pc = "packed"
    /\ sr_unpacked' = _unpack(NewValue(sr_value._type, sr_tao), sr_stream)
    /\ sr_pc' = "unpacked"
    /\ UNCHANGED <<sr_value, sr_tao, sr_stream>>
    /\ UNCHANGED <<rt_vars, tm_vars, ni_vars, ix_vars, ar_vars, xf_vars,
                   bt_vars, sd_vars, un_vars>>

SRNext == pack \/ unpack

ARIdle ==
    /\ array = <<>>
    /\ array_last = <<>>

UNIdle ==
    /\ un_value = <<>>
    /\ un_last = <<>>

XFIdle ==
    /\ transfer = <<>>
    /\ frame_list = <<>>
    /\ sent = <<>>
    /\ received = <<>>
    /\ xf_pc = "idle"

BTInit ==
    /\ media_log = <<>>
    /\ push_log = <<>>

SDInit ==
    /\ media_lock = <<>>
    /\ sends = <<>>
    /\ wire = <<>>

(***************************************************************************)
(* ArrayValue under a sequence of calls                                    *)
(***************************************************************************)
\* The arrays that are operated on.
ArrayMenu ==
    {ArrayType(uint8, "dynamic", 1),
     ArrayType(bool, "dynamic", 5),
     ArrayType(uint2, "static", 2)}

\* The bit streams handed to _unpack: every prefix of a few streams. A 16-bit
\* stream holds two uint8 items; "111..." and "110..." begin with the 3-bit
\* length fields 7 and 6 of a bool[<=5].
ArrayStreams ==
    LET whole == {<<"0", "0", "0", "0", "0", "0", "0", "1",
                    "0", "0", "0", "0", "0", "0", "1", "0">>,
                  <<"1", "1", "1", "1", "0", "1", "0", "1", "0", "1">>,
                  <<"1", "1", "0", "0", "1", "0", "1">>,
                  <<"0", "1", "1", "0", "1", "1", "0">>}
    IN  {Slice(s, 0, n) : s \in whole, n \in 0..16}

ARInit ==
    /\ array \in {ArrayValue(t, tao) : t \in ArrayMenu, tao \in BOOLEAN}
    /\ array_last = [op |-> "init", outcome |-> "ok", ncalls |-> 0]

\* The position of list index idx in a list of n items, from 1; 0 when the
\* index is out of range.
ListIndex(idx, n) ==
    IF 0 <= idx /\ idx < n THEN idx + 1
    ELSE IF idx < 0 /\ 0 - idx <= n THEN n + idx + 1
    ELSE 0

\* list.insert(idx, x)
ListInsert(s, idx, x) ==
    LET n == Len(s)
        at == IF idx < 0 THEN (IF n + idx < 0 THEN 0 ELSE n + idx)
              ELSE IF idx > n THEN n ELSE idx
    IN  SubSeq(s, 1, at) \o <<x>> \o SubSeq(s, at + 1, n)

\* ArrayValue.insert, lines 318-328, on the object: the object it leaves and
\* the exception it raises ("" for none).
insert(obj, idx, value) ==
    IF idx >= obj._type.max_size
    THEN [obj |-> obj, error |-> "IndexError"]
    ELSE IF Len(obj.items) = obj._type.max_size
    THEN [obj |-> obj, error |-> "IndexError"]
    ELSE IF obj._type.value_type.cat = "primitive"
    THEN [obj |-> [obj EXCEPT !.items =
                      ListInsert(obj.items, idx,
                                 value_setter(item_ctor(obj._type), value))],
          error |-> ""]
    ELSE [obj |-> [obj EXCEPT !.items = ListInsert(obj.items, idx, value)],
          error |-> ""]

\* MutableSequence.append: self.insert(len(self), value)
append(obj, value) == insert(obj, Len(obj.items), value)

\* ArrayValue.__setitem__, lines 295-301
__setitem__(obj, idx, value) ==
    IF idx >= obj._type.max_size THEN [obj |-> obj, error |-> "IndexError"]
    ELSE IF ListIndex(idx, Len(obj.items)) = 0
    THEN [obj |-> obj, error |-> "IndexError"]
    ELSE IF obj._type.value_type.cat = "primitive"
    THEN [obj |-> [obj EXCEPT !.items[ListIndex(idx, Len(obj.items))] =
                      value_setter(@, value)],
          error |-> ""]
    ELSE [obj |-> [obj EXCEPT !.items[ListIndex(idx, Len(obj.items))] = value],
          error |-> ""]

\* ArrayValue.__delitem__, lines 303-304
__delitem__(obj, idx) ==
    LET at == ListIndex(idx, Len(obj.items))
    IN  IF at = 0 THEN [obj |-> obj, error |-> "IndexError"]
        ELSE [obj |-> [obj EXCEPT !.items =
                          SubSeq(obj.items, 1, at - 1)
                              \o SubSeq(obj.items, at + 1, Len(obj.items))],
              error |-> ""]

\* for item in value: self._fields[attr].append(item), up to the first
\* exception
RECURSIVE AppendAll(_, _)
AppendAll(obj, values) ==
    IF values = <<>> THEN [obj |-> obj, error |-> ""]
    ELSE LET r == append(obj, Head(values))
         IN  IF r.error # "" THEN r ELSE AppendAll(r.obj, Tail(values))

\* CompoundValue.__setattr__ for an array field, lines 500-510: clear(), then
\* append every item; any exception is raised as AttributeError.
__setattr__array(obj, value) ==
    LET r == AppendAll([obj EXCEPT !.items = <<>>], value)
    IN  [obj |-> r.obj,
         error |-> IF r.error # "" THEN "AttributeError" ELSE ""]

\* One call on the array.
Called(op, r) ==
    /\ array_last.ncalls < MaxArrayCalls
    /\ array' = r.obj
    /\ array_last' = [op |-> op,
                      outcome |-> IF r.error = "" THEN "ok" ELSE r.error,
                      ncalls |-> array_last.ncalls + 1]
    /\ UNCHANGED <<rt_vars, tm_vars, ni_vars, ix_vars, sr_vars, xf_vars,
                   bt_vars, sd_vars, un_vars>>

ItemValues == IF array._type.value_type.kind = "boolean" THEN {0, 1} ELSE {1, 3}

array_insert(idx, value) == Called("insert", insert(array, idx, value))

array_append(value) == Called("append", append(array, value))

array_setitem(idx, value) ==
    Called("__setitem__", __setitem__(array, idx, value))

array_delitem(idx) == Called("__delitem__", __delitem__(array, idx))

array_assign(value) == Called("__setattr__", __setattr__array(array, value))

array_unpack(stream) ==
    Called("_unpack", [obj |-> _unpack(array, stream).obj,
                       error |-> _unpack(array, stream).error])

ARNext ==
    \/ \E idx \in (0 - 1)..array._type.max_size, v \in ItemValues :
           array_insert(idx, v)
    \/ \E v \in ItemValues : array_append(v)
    \/ \E idx \in (0 - 1)..array._type.max_size, v \in ItemValues :
           array_setitem(idx, v)
    \/ \E idx \in (0 - 1)..array._type.max_size : array_delitem(idx)
    \/ \E n \in 0..(array._type.max_size + 1) :
           \E value \in [1..n -> ItemValues] : array_assign(value)
    \/ \E stream \in ArrayStreams : array_unpack(stream)

(***************************************************************************)
(* Transfer (uavcan/transport.py)                                          *)
(***************************************************************************)
\* a | b and a ^ b on naturals
RECURSIVE BitOr(_, _)
BitOr(a, b) ==
    IF a = 0 THEN b ELSE IF b = 0 THEN a
    ELSE 2 * BitOr(a \div 2, b \div 2)
             + (IF a % 2 = 1 \/ b % 2 = 1 THEN 1 ELSE 0)

RECURSIVE BitXor(_, _)
BitXor(a, b) ==
    IF a = 0 THEN b ELSE IF b = 0 THEN a
    ELSE 2 * BitXor(a \div 2, b \div 2) + ((a + b) % 2)

\* The inner loop of the CRC: k more shifts with the polynomial 0x1021.
RECURSIVE crc16_shift(_, _)
crc16_shift(crc, k) ==
    IF k = 0 THEN crc
    ELSE IF crc >= 32768
    THEN crc16_shift(BitXor((crc * 2) % 65536, 4129), k - 1)
    ELSE crc16_shift((crc * 2) % 65536, k - 1)

\* uavcan.dsdl.common.crc16_from_bytes: CRC-16-CCITT, bytes fed MSB first, no
\* reflection, no final XOR.
RECURSIVE crc16_from_bytes(_, _)
crc16_from_bytes(bytes, initial) ==
    IF bytes = <<>> THEN initial
    ELSE crc16_from_bytes(Tail(bytes),
                          crc16_shift(BitXor(initial, Head(bytes) * 256), 8))

\* bits_from_bytes, lines 74-75
bits_from_bytes(s) == Join([i \in DOMAIN s |-> format(s[i], 8)])

\* bytes_from_bits, lines 78-79, of a string of "0" and "1"
RECURSIVE bytes_from_bits(_)
bytes_from_bits(s) ==
    IF s = <<>> THEN <<>>
    ELSE <<int(Slice(s, 0, 8))>> \o bytes_from_bits(Slice(s, 8, Len(s)))

\* uint8[<=20] as the only field: the payload is the items, one byte each.
BytesType == CompoundType(<<ArrayType(uint8, "dynamic", 20)>>, FALSE)

\* uint8[<=2] followed by a flag: the array keeps its length field.
PairType == CompoundType(<<ArrayType(uint8, "dynamic", 2), bool>>, FALSE)

\* A data type: its id, kind, CRC seed and the fields of its message, or of
\* its request and response.
DataType(default_dtid, kind, base_crc, type) ==
    [default_dtid |-> default_dtid, kind |-> kind, base_crc |-> base_crc,
     type |-> type]

\* uavcan.DATATYPES: the registered data types by (data type id, kind).
DATATYPES ==
    (<<1, "message">> :> DataType(1, "message", 65535, BytesType))
    @@ (<<2, "message">> :> DataType(2, "message", 7439, PairType))
    @@ (<<5, "message">> :> DataType(5, "message", 4660, BytesType))
    @@ (<<1, "service">> :> DataType(1, "service", 291, BytesType))

DEFAULT_TRANSFER_PRIORITY == 31

\* Transfer.__init__, lines 570-605, with a payload value: the payload is
\* packed and padded to whole bytes.
Transfer(transfer_id, source_node_id, dest_node_id, payload, transfer_priority, request_not_response, service_not_message, discriminator, datatype) ==
    LET payload_bits == _pack(payload)
        padded == IF Len(payload_bits) % 8 # 0
                  THEN payload_bits \o Zeros(8 - (Len(payload_bits) % 8))
                  ELSE payload_bits
    IN  [transfer_priority |-> IF transfer_priority # None
                               THEN transfer_priority
                               ELSE DEFAULT_TRANSFER_PRIORITY,
         transfer_id |-> transfer_id,
         source_node_id |-> source_node_id,
         dest_node_id |-> dest_node_id,
         request_not_response |-> request_not_response,
         service_not_message |-> service_not_message,
         discriminator |-> discriminator,
         payload |-> bytes_from_bits(padded),
         data_type_id |-> datatype.default_dtid,
         data_type_crc |-> datatype.base_crc]

\* Transfer(): no payload.
NewTransfer ==
    [transfer_priority |-> DEFAULT_TRANSFER_PRIORITY,
     transfer_id |-> 0, source_node_id |-> 0, dest_node_id |-> None,
     request_not_response |-> FALSE, service_not_message |-> FALSE,
     discriminator |-> None, payload |-> None,
     data_type_id |-> None, data_type_crc |-> None]

\* The assertions of the message_id getter, lines 619-632.
message_id_asserts(t) ==
    IF t.service_not_message
    THEN /\ 0 <= t.data_type_id /\ t.data_type_id <= 255
         /\ 1 <= t.dest_node_id /\ t.dest_node_id <= 127
    ELSE IF t.source_node_id = 0
    THEN t.dest_node_id = None /\ t.discriminator # None
    ELSE 0 <= t.data_type_id /\ t.data_type_id <= 65535

\* Transfer.message_id, the getter, lines 611-636
message_id(t) ==
    LET id_ == BitOr(BitOr((t.transfer_priority % 32) * Pow2(24),
                           (IF t.service_not_message THEN 1 ELSE 0) * 128),
                     IF t.source_node_id = None THEN 0 ELSE t.source_node_id)
    IN  IF t.service_not_message
        THEN BitOr(BitOr(BitOr(id_, t.data_type_id * Pow2(16)),
                         (IF t.request_not_response THEN 1 ELSE 0) * Pow2(15)),
                   t.dest_node_id * 256)
        ELSE IF t.source_node_id = 0
        THEN BitOr(BitOr(id_, t.discriminator * Pow2(10)),
                   (t.data_type_id % 4) * 256)
        ELSE BitOr(id_, t.data_type_id * 256)

\* Transfer.message_id, the setter, lines 638-652
set_message_id(t, value) ==
    LET service_not_message == Bit(value, 128) = 1
        source_node_id == value % 128
        common == [t EXCEPT !.transfer_priority = (value \div Pow2(24)) % 32,
                            !.service_not_message = service_not_message,
                            !.source_node_id = source_node_id]
    IN  IF service_not_message
        THEN [common EXCEPT !.data_type_id = (value \div Pow2(16)) % 256,
                            !.request_not_response = Bit(value, Pow2(15)) = 1,
                            !.dest_node_id = (value \div 256) % 128]
        ELSE IF source_node_id = 0
        THEN [common EXCEPT !.discriminator = (value \div Pow2(10)) % 16384,
                            !.data_type_id = (value \div 256) % 4]
        ELSE [common EXCEPT !.data_type_id = (value \div 256) % 65536]

\* A frame as to_frames builds it.
Frame(message_id_, data) == [message_id |-> message_id_, bytes |-> data]

\* to_frames, line 666: tail = 0x20, so that the first frame has toggle 0
InitialTail == 32

\* The toggle bit of the previous tail byte, kept as it is.
TailToggleKept(tail) == Bit(tail, 32) * 32

\* to_frames, line 672: (tail ^ 0x20) & 0x20
TailToggle(tail) == IF Bit(tail, 32) = 1 THEN 0 ELSE 32

\* Start of transfer set on every frame.
StartOfTransferAlways(out_frames) == 128

\* to_frames, line 670: 0x80 if len(out_frames) == 0 else 0
StartOfTransfer(out_frames) == IF Len(out_frames) = 0 THEN 128 ELSE 0

\* End of transfer set only when fewer than 7 bytes remain.
EndOfTransferUnderSeven(remaining_payload) ==
    IF Len(remaining_payload) < 7 THEN 64 ELSE 0

\* to_frames, line 671: 0x40 if len(remaining_payload) <= 7 else 0
EndOfTransfer(remaining_payload) ==
    IF Len(remaining_payload) <= 7 THEN 64 ELSE 0

\* The CRC prepended from 7 bytes on.
NeedsCRCFromSeven(payload) == Len(payload) >= 7

\* to_frames, line 660: len(remaining_payload) > 7
NeedsCRC(payload) == Len(payload) > 7

\* The loop of to_frames, lines 667-676.
RECURSIVE FrameLoop(_, _, _, _)
FrameLoop(t, remaining_payload, out_frames, tail) ==
    LET next == StartOfTransfer(out_frames)
                + EndOfTransfer(remaining_payload)
                + TailToggle(tail)
                + (t.transfer_id % 32)
        out == Append(out_frames,
                      Frame(message_id(t),
                            Slice(remaining_payload, 0, 7) \o <<next>>))
        rest == Slice(remaining_payload, 7, Len(remaining_payload))
    IN  IF rest = <<>> THEN out ELSE FrameLoop(t, rest, out, next)

\* Transfer.to_frames, lines 654-678
to_frames(t) ==
    LET crc == crc16_from_bytes(t.payload, t.data_type_crc)
        remaining_payload ==
            IF NeedsCRC(t.payload)
            THEN <<crc % 256, crc \div 256>> \o t.payload
            ELSE t.payload
    IN  FrameLoop(t, remaining_payload, <<>>, InitialTail)

\* The toggle that from_frames expects next, never flipped.
NextToggleStuck(expected_toggle) == expected_toggle

\* from_frames, line 703: expected_toggle ^= 0x20
NextToggle(expected_toggle) == IF expected_toggle = 0 THEN 32 ELSE 0

\* The validation loop of from_frames, lines 686-703: TRUE when it raises
\* TransferError at frame idx (from 0) or later.
RECURSIVE TailByteError(_, _, _, _)
TailByteError(frames_, idx, expected_toggle, expected_transfer_id) ==
    IF idx >= Len(frames_) THEN FALSE
    ELSE LET tail == Last(frames_[idx + 1].bytes)
         IN  \/ tail % 32 # expected_transfer_id
             \/ idx = 0 /\ Bit(tail, 128) = 0
             \/ idx > 0 /\ Bit(tail, 128) = 1
             \/ idx = Len(frames_) - 1 /\ Bit(tail, 64) = 0
             \/ idx < Len(frames_) - 1 /\ Bit(tail, 64) = 1
             \/ Bit(tail, 32) * 32 # expected_toggle
             \/ TailByteError(frames_, idx + 1, NextToggle(expected_toggle),
                              expected_transfer_id)

\* The CRC is validated for lists of more than two frames only.
MultiFrameOverTwo(frames_) == Len(frames_) > 2

\* from_frames, line 720: len(frames) > 1
MultiFrame(frames_) == Len(frames_) > 1

\* What a from_frames call leaves: the Transfer object and the exception
\* raised ("" for none).
Returned(t, error) == [transfer |-> t, error |-> error]

\* Transfer.from_frames, lines 680-738, called on a new Transfer() with a
\* non-empty list of frames that have at least a tail byte each.
from_frames(frames_) ==
    LET expected_transfer_id == Last(frames_[1].bytes) % 32
        t1 == set_message_id(
                  [NewTransfer EXCEPT !.transfer_id = expected_transfer_id],
                  frames_[1].message_id)
        payload_bytes ==
            Join([i \in DOMAIN frames_ |->
                     SubSeq(frames_[i].bytes, 1, Len(frames_[i].bytes) - 1)])
        kind == IF t1.service_not_message THEN "service" ELSE "message"
        found == <<t1.data_type_id, kind>> \in DOMAIN DATATYPES
        datatype == DATATYPES[<<t1.data_type_id, kind>>]
        transfer_crc == payload_bytes[1] + payload_bytes[2] * 256
        data == IF MultiFrame(frames_)
                THEN Slice(payload_bytes, 2, Len(payload_bytes))
                ELSE payload_bytes
        t2 == [t1 EXCEPT !.data_type_id = datatype.default_dtid,
                         !.data_type_crc = datatype.base_crc]
        \* datatype(_mode=...) or datatype(): _tao defaults to True
        unpacked == _unpack(CompoundValue(datatype.type, TRUE),
                            bits_from_bytes(data))
    IN  IF TailByteError(frames_, 0, 0, expected_transfer_id)
        THEN Returned(NewTransfer, "TransferError")
        ELSE IF ~found THEN Returned(t1, "TransferError")
        ELSE IF MultiFrame(frames_) /\ Len(payload_bytes) < 2
        THEN Returned(t1, "IndexError")
        ELSE IF /\ MultiFrame(frames_)
                /\ crc16_from_bytes(data, datatype.base_crc) # transfer_crc
        THEN Returned(t1, "TransferError")
        ELSE Returned([t2 EXCEPT !.payload = unpacked.obj], unpacked.error)

(***************************************************************************)
(* Transfers sent as frames and received back                              *)
(***************************************************************************)
\* The payload lengths in bytes: one frame (0..7), two frames (8, and 12
\* that fills both with the CRC), three frames.
PayloadLengths == {0, 1, 7, 8, 12, 13}

\* A value of the byte array type: n bytes of a pattern.
BytesValue(n, a) ==
    [CompoundValue(BytesType, TRUE) EXCEPT !._fields[1].items =
        [i \in 1..n |->
            value_setter(PrimitiveValue(uint8), (a * i + 11) % 256)]]

\* The payload values of a data type: for the byte array, two byte patterns
\* of every length; for the other type, every value.
PayloadValues(type) ==
    IF type = BytesType
    THEN {BytesValue(n, a) : n \in PayloadLengths, a \in {0, 37}}
    ELSE LegalValues(type, TRUE)

\* A message of 20 bytes with transfer id 1 from node 1.
LongTransferArgs ==
    [transfer_id |-> 1, source_node_id |-> 1, dest_node_id |-> None,
     payload |-> BytesValue(20, 37), transfer_priority |-> None,
     request_not_response |-> FALSE, service_not_message |-> FALSE,
     discriminator |-> None, datatype |-> DATATYPES[<<1, "message">>]]

\* The arguments of the Transfer constructor for the transfers that are
\* sent: with transfer id 31, messages from node 1, anonymous messages,
\* requests and responses of a service from node 3 to node 9, of every
\* registered data type of their kind; and the message of 20 bytes.
TransferArgs ==
    {LongTransferArgs} \cup
    UNION {[transfer_id : IF (k[2] = "service") = (src = 3)
                          THEN {31} ELSE {},
            source_node_id : {src},
            dest_node_id : {IF k[2] = "service" THEN 9 ELSE None},
            payload : PayloadValues(DATATYPES[k].type),
            transfer_priority : {IF src = 1 THEN None ELSE 7},
            request_not_response :
                IF k[2] = "service" THEN BOOLEAN ELSE {FALSE},
            service_not_message : {k[2] = "service"},
            discriminator : {IF src = 0 THEN 4660 ELSE None},
            datatype : {DATATYPES[k]}] :
           k \in DOMAIN DATATYPES, src \in {0, 1, 3}}

\* What was sent and what was done to the frames afterwards: the payload
\* value, the bit that was flipped (frame, byte, bit), the frames whose tail
\* byte was replaced, the frames whose payload was cut short (none at first).
Sent(payload, flipped, tails) ==
    [payload |-> payload, flipped |-> flipped, tails |-> tails, cut |-> {}]

XFInit ==
    /\ \E a \in TransferArgs :
           /\ transfer = Transfer(a.transfer_id, a.source_node_id,
                                  a.dest_node_id, a.payload,
                                  a.transfer_priority, a.request_not_response,
                                  a.service_not_message, a.discriminator,
                                  a.datatype)
           /\ sent = Sent(a.payload, <<>>, {})
    /\ frame_list = <<>>
    /\ received = <<>>
    /\ xf_pc = "new"

\* transfer.to_frames()
send ==
    /\ xf_pc = "new"
    /\ frame_list' = to_frames(transfer)
    /\ xf_pc' = "frames"
    /\ UNCHANGED <<transfer, sent, received>>
    /\ UNCHANGED <<rt_vars, tm_vars, ni_vars, ix_vars, sr_vars, ar_vars,
                   bt_vars, sd_vars, un_vars>>

\* byte with bit b (0..7) flipped
FlipBit(byte, b) ==
    IF Bit(byte, Pow2(b)) = 1 THEN byte - Pow2(b) ELSE byte + Pow2(b)

\* One bit of one payload byte (not the tail byte) of one frame of a
\* multi-frame list is flipped on the way.
flip_bit(i, j, b) ==
    /\ xf_pc = "frames"
    /\ Len(frame_list) > 1
    /\ sent.flipped = <<>>
    /\ sent.tails = {}
    /\ sent.cut = {}
    /\ i \in DOMAIN frame_list
    /\ j \in 1..(Len(frame_list[i].bytes) - 1)
    /\ frame_list' = [frame_list EXCEPT ![i].bytes[j] = FlipBit(@, b)]
    /\ sent' = [sent EXCEPT !.flipped = <<i, j, b>>]
    /\ UNCHANGED <<transfer, received, xf_pc>>
    /\ UNCHANGED <<rt_vars, tm_vars, ni_vars, ix_vars, sr_vars, ar_vars,
                   bt_vars, sd_vars, un_vars>>

\* The tail bytes a frame can arrive with: any flags, the transfer id of the
\* transfer or the next one.
TamperTails ==
    {128 * s + 64 * e + 32 * g + id :
        s \in 0..1, e \in 0..1, g \in 0..1,
        id \in {transfer.transfer_id % 32, (transfer.transfer_id + 1) % 32}}

\* The tail byte of frame i is replaced on the way (frames in order).
replace_tail(i, tail) ==
    /\ xf_pc = "frames"
    /\ sent.flipped = <<>>
    /\ sent.cut = {}
    /\ i \in DOMAIN frame_list
    /\ \A k \in sent.tails : k < i
    /\ tail # Last(frame_list[i].bytes)
    /\ frame_list' =
           [frame_list EXCEPT ![i].bytes[Len(frame_list[i].bytes)] = tail]
    /\ sent' = [sent EXCEPT !.tails = @ \cup {i}]
    /\ UNCHANGED <<transfer, received, xf_pc>>
    /\ UNCHANGED <<rt_vars, tm_vars, ni_vars, ix_vars, sr_vars, ar_vars,
                   bt_vars, sd_vars, un_vars>>

\* Frame i arrives with only the first n of its payload bytes and its tail
\* byte (frames in order).
truncate(i, n) ==
    /\ xf_pc = "frames"
    /\ sent.flipped = <<>>
    /\ sent.tails = {}
    /\ i \in DOMAIN frame_list
    /\ \A k \in sent.cut : k < i
    /\ n < Len(frame_list[i].bytes) - 1
    /\ frame_list' =
           [frame_list EXCEPT ![i].bytes = SubSeq(@, 1, n) \o <<Last(@)>>]
    /\ sent' = [sent EXCEPT !.cut = @ \cup {i}]
    /\ UNCHANGED <<transfer, received, xf_pc>>
    /\ UNCHANGED <<rt_vars, tm_vars, ni_vars, ix_vars, sr_vars, ar_vars,
                   bt_vars, sd_vars, un_vars>>

\* Transfer().from_frames(frame_list)
receive ==
    /\ xf_pc = "frames"
    /\ received' = from_frames(frame_list)
    /\ xf_pc' = "done"
    /\ UNCHANGED <<transfer, frame_list, sent>>
    /\ UNCHANGED <<rt_vars, tm_vars, ni_vars, ix_vars, sr_vars, ar_vars,
                   bt_vars, sd_vars, un_vars>>

XFNext ==
    \/ send
    \/ \E i \in 1..4, j \in 1..7, b \in 0..7 : flip_bit(i, j, b)
    \/ \E i \in 1..3, tail \in TamperTails : replace_tail(i, tail)
    \/ \E i \in 1..4, n \in 0..1 : truncate(i, n)
    \/ receive

(***************************************************************************)
(* A union value under reads, writes, switch_union_field and _unpack       *)
(***************************************************************************)
MaxUnionCalls == 3

\* The union that is operated on: uint2 x, bool[<=3] y, bool z.
UnionType ==
    CompoundType(<<uint2, ArrayType(bool, "dynamic", 3), bool>>, TRUE)

OtherFieldActiveIgnored(obj, attr) == FALSE

\* lines 464 and 481: self._union_field and self._union_field != attr
OtherFieldActive(obj, attr) ==
    obj._union_field # 0 /\ obj._union_field # attr

\* CompoundValue.__getattr__, lines 459-474, for a field: the object it
\* leaves, the exception it raises ("" for none) and what it returns.
__getattr__(obj, attr) ==
    IF obj._is_union /\ OtherFieldActive(obj, attr)
    THEN [obj |-> obj, error |-> "AttributeError", result |-> <<>>]
    ELSE LET o == IF obj._is_union
                  THEN [obj EXCEPT !._union_field = attr] ELSE obj
         IN  [obj |-> o, error |-> "",
              result |-> <<IF o._fields[attr].cat = "primitive"
                           THEN value_getter(o._fields[attr])
                           ELSE o._fields[attr]>>]

\* CompoundValue.__setattr__, lines 476-515, for a field: value is an
\* integer for a primitive field, a list of integers for an array field, a
\* CompoundValue of the field's type for a composite field.
__setattr__(obj, attr, value) ==
    IF obj._is_union /\ OtherFieldActive(obj, attr)
    THEN [obj |-> obj, error |-> "AttributeError"]
    ELSE LET o == IF obj._is_union
                  THEN [obj EXCEPT !._union_field = attr] ELSE obj
         IN  CASE o._fields[attr].cat = "primitive" ->
                      [obj |-> [o EXCEPT !._fields[attr] =
                                   value_setter(@, value)],
                       error |-> ""]
               [] o._fields[attr].cat = "compound" ->
                      [obj |-> [o EXCEPT !._fields[attr] = value],
                       error |-> ""]
               [] o._fields[attr].cat = "array" ->
                      LET r == __setattr__array(o._fields[attr], value)
                      IN  [obj |-> [o EXCEPT !._fields[attr] = r.obj],
                           error |-> r.error]
               [] OTHER -> [obj |-> o, error |-> "AttributeError"]

\* switch_union_field, lines 53-57, on a union
switch_union_field(obj, value) ==
    [obj |-> [obj EXCEPT !._union_field = value], error |-> ""]

\* What is assigned to a field of the type: in range for a primitive; for an
\* array, lists up to one item more than it can hold.
FieldValues(type) ==
    IF type.cat = "array"
    THEN {<<>>, <<1>>, [i \in 1..(type.max_size + 1) |-> i % 2]}
    ELSE IF type.kind = "boolean" THEN {0, 1} ELSE {1, 3}

\* The bit streams handed to _unpack: tag 0 and x = 3; tag 1 and y = [1, 0];
\* tag 1 and a y cut short; tag 2 and z = 1; tag 3, which no field has; the
\* empty stream.
UnionStreams ==
    {<<"0", "0", "1", "1">>, <<"0", "1", "1", "0", "1", "0">>,
     <<"0", "1", "1", "0", "1">>, <<"1", "0", "1">>, <<"1", "1">>, <<>>}

UNInit ==
    /\ un_value = CompoundValue(UnionType, TRUE)
    /\ un_last = [op |-> "init", attr |-> 0, outcome |-> "ok",
                  before |-> un_value, ncalls |-> 0]

\* One call on the union.
UnionCalled(op, attr, r) ==
    /\ un_last.ncalls < MaxUnionCalls
    /\ un_value' = r.obj
    /\ un_last' = [op |-> op, attr |-> attr,
                   outcome |-> IF r.error = "" THEN "ok" ELSE r.error,
                   before |-> un_value,
                   ncalls |-> un_last.ncalls + 1]
    /\ UNCHANGED <<rt_vars, tm_vars, ni_vars, ix_vars, sr_vars, ar_vars,
                   xf_vars, bt_vars, sd_vars>>

union_read(attr) == UnionCalled("__getattr__", attr, __getattr__(un_value, attr))

union_write(attr, value) ==
    UnionCalled("__setattr__", attr, __setattr__(un_value, attr, value))

union_switch(attr) ==
    UnionCalled("switch_union_field", attr, switch_union_field(un_value, attr))

union_unpack(stream) == UnionCalled("_unpack", 0, _unpack(un_value, stream))

UNNext ==
    \/ \E attr \in DOMAIN UnionType.fields : union_read(attr)
    \/ \E attr \in DOMAIN UnionType.fields :
           \E value \in FieldValues(UnionType.fields[attr]) :
               union_write(attr, value)
    \/ \E attr \in DOMAIN UnionType.fields : union_switch(attr)
    \/ \E stream \in UnionStreams : union_unpack(stream)

\* A union value under reads and writes of its fields.
InitUnion ==
    /\ RTInit /\ TMInit /\ NIInit /\ IXIdle
    /\ SRIdle /\ ARIdle /\ XFIdle /\ BTInit /\ SDInit /\ UNInit
SpecUnion == InitUnion /\ [][UNNext]_vars

(***************************************************************************)
(* Specifications                                                          *)
(***************************************************************************)
\* The parts of the state a specification of another part leaves idle.
Idle == SRIdle /\ ARIdle /\ XFIdle /\ BTInit /\ SDInit /\ UNIdle

Init == RTInit /\ TMInit /\ NIInit /\ IXIdle /\ Idle

\* The session router of CANTransport.
Spec == Init /\ [][RTNext]_vars

\* The TransferManager.
SpecTM == Init /\ [][TMNext]_vars

\* Node id assignment.
SpecNodeId == Init /\ [][NINext]_vars

\* The dispatch index function on every pair of legal inputs.
InitIndex == RTInit /\ TMInit /\ NIInit /\ IXInit /\ Idle
SpecIndex == InitIndex /\ [][compute_indices]_vars

\* Serialization: every value of the type menu is packed and unpacked.
InitSerial ==
    /\ RTInit /\ TMInit /\ NIInit /\ IXIdle
    /\ SRInit /\ ARIdle /\ XFIdle /\ BTInit /\ SDInit /\ UNIdle
SpecSerial == InitSerial /\ [][SRNext]_vars

\* An ArrayValue under insert, append, item assignment and deletion, field
\* assignment and _unpack.
InitArray ==
    /\ RTInit /\ TMInit /\ NIInit /\ IXIdle
    /\ SRIdle /\ ARInit /\ XFIdle /\ BTInit /\ SDInit /\ UNIdle
SpecArray == InitArray /\ [][ARNext]_vars

\* Transfers split into frames and put together again.
InitTransfer ==
    /\ RTInit /\ TMInit /\ NIInit /\ IXIdle
    /\ SRIdle /\ ARIdle /\ XFInit /\ BTInit /\ SDInit /\ UNIdle
SpecTransfer == InitTransfer /\ [][XFNext]_vars

\* The reception callback with exceptions and frame logs.
SpecBatch == Init /\ [][BTNext]_vars

\* Concurrent sends of the output sessions under the media lock.
SpecSend == Init /\ [][SDNext]_vars

(***************************************************************************)
(* Properties                                                              *)
(***************************************************************************)
GetOps == {"BroadcastOutputSession", "UnicastOutputSession",
           "PromiscuousInputSession", "SelectiveInputSession"}

\* Whether the transport holds session s under key <<dir, ds, nid>> now.
Registered(key, s) ==
    IF key[1] = "out"
    THEN /\ <<key[2], key[3]>> \in DOMAIN output_registry
         /\ output_registry[<<key[2], key[3]>>] = s
    ELSE \E i \in 0..(_INPUT_DISPATCH_TABLE_SIZE - 1) :
            /\ input_dispatch_table[i] = s
            /\ \A j \in 0.._INPUT_DISPATCH_TABLE_SIZE :
                   input_dispatch_table[j] = s => j = i

Unregistered(key) ==
    IF key[1] = "out"
    THEN <<key[2], key[3]>> \notin DOMAIN output_registry
    ELSE \A s \in DOMAIN sessions :
            (~IsOutput(s) /\ sessions[s].data_specifier = key[2]
                /\ sessions[s].node_id = key[3])
            => \A i \in 0.._INPUT_DISPATCH_TABLE_SIZE :
                   input_dispatch_table[i] # s

KeyOf(s) ==
    <<IF IsOutput(s) THEN "out" ELSE "in",
      sessions[s].data_specifier, sessions[s].node_id>>

Occurrences(seq, x) == Cardinality({i \in DOMAIN seq : seq[i] = x})

C2_FinalizerUnregisters ==
    /\ rt_last.op = "close" => Unregistered(rt_last.key)
    /\ rt_last.op = "_on_frames_received" =>
           \A i \in DOMAIN rt_last.batch :
               \A s \in Range(rt_last.batch[i].pushed)
                        \cup Range(rt_last.batch[i].looped) :
                   /\ KeyOf(s) \in DOMAIN current
                   /\ current[KeyOf(s)] = s
    /\ (rt_last.op \in GetOps /\ rt_last.prior = None) =>
           /\ rt_last.created
           /\ rt_last.session = Len(sessions)
           /\ Registered(rt_last.key, rt_last.session)

\* A key is given a new session after the finalizer of its first session ran.
C2_Witness ==
    /\ rt_last.op \in GetOps
    /\ rt_last.created
    /\ rt_last.session = 2
    /\ KeyOf(1) = rt_last.key
    /\ Registered(rt_last.key, 2)

C5_LoopbackDispatch ==
    \A i \in DOMAIN rt_last.batch :
        LET r == rt_last.batch[i]
            cid == r.frame.identifier
            d == to_output_data_specifier(cid)
            dest == IF cid.kind = "service" THEN cid.destination_node_id
                    ELSE None
        IN  /\ (cid.kind \in {"message", "service"} /\ r.frame.valid
                    /\ r.frame.loopback)
               => /\ r.pushed = <<>>
                  /\ r.looped = IF Prior("out", d, dest) # None
                                THEN <<Prior("out", d, dest)>> ELSE <<>>
            /\ ~r.frame.loopback => r.looped = <<>>
            /\ \A s \in Range(r.pushed) : ~IsOutput(s)
            /\ \A s \in Range(r.looped) : IsOutput(s)

\* A loopback service frame reached the unicast output session of its
\* destination.
C5_Witness ==
    \E i \in DOMAIN rt_last.batch :
        /\ rt_last.batch[i].frame.loopback
        /\ rt_last.batch[i].frame.identifier.kind = "service"
        /\ Len(rt_last.batch[i].looped) = 1

\* C3: once a set_local_node_id call with a node id in 0..NODE_ID_MASK
\* (0 included) has assigned the node id, local_node_id keeps that value, and
\* every call made after it fails with InvalidTransportConfigurationError.
C3_NodeIdAssignedOnce ==
    \A i \in DOMAIN calls :
        /\ (calls[i].prior = None /\ 0 <= calls[i].node_id
                /\ calls[i].node_id <= NODE_ID_MASK)
           => local_node_id = calls[i].node_id
        /\ calls[i].prior # None
           => /\ calls[i].outcome = "InvalidTransportConfigurationError"
              /\ local_node_id = calls[i].prior

\* Node id 0 was assigned and a later call with a valid node id was refused.
C3_Witness ==
    /\ local_node_id = 0
    /\ \E i \in DOMAIN calls :
           /\ calls[i].prior = 0
           /\ calls[i].node_id \in 1..NODE_ID_MASK
           /\ calls[i].outcome = "InvalidTransportConfigurationError"

\* C6: _compute_input_dispatch_table_index gives distinct indices to distinct
\* legal inputs, every index lies in [0, _INPUT_DISPATCH_TABLE_SIZE), and the
\* indices of all legal inputs are exactly _INPUT_DISPATCH_TABLE_SIZE many.
C6_IndexInjective ==
    ix_out # <<>> =>
        /\ ix_in[1] # ix_in[2] => ix_out[1] # ix_out[2]
        /\ \A i \in 1..2 :
               0 <= ix_out[i] /\ ix_out[i] < _INPUT_DISPATCH_TABLE_SIZE
        /\ Cardinality({_compute_input_dispatch_table_index(
                            x.data_specifier, x.source_node_id) :
                        x \in LegalInputs})
               = (_NUM_SUBJECTS + 2 * _NUM_SERVICES) * (_NUM_NODE_IDS + 1)

\* The request and the response side of one service id, from one node, got
\* different slots.
C6_Witness ==
    /\ ix_out # <<>>
    /\ ix_in[1].data_specifier.kind = "service"
    /\ ix_in[2].data_specifier.kind = "service"
    /\ ix_in[1].data_specifier.id = ix_in[2].data_specifier.id
    /\ ix_in[1].data_specifier.role # ix_in[2].data_specifier.role
    /\ ix_in[1].source_node_id = ix_in[2].source_node_id
    /\ ix_out[1] # ix_out[2]

\* A step of receive_frame.
ReceiveStep == nrx' = nrx + 1

\* A step of remove_inactive_transfers.
SweepStep ==
    /\ nrx' = nrx
    /\ now' = now
    /\ tm_last'.op = "remove_inactive_transfers"

\* C7: receive_frame on a frame without start-of-transfer whose key (message
\* id, 5-bit transfer id) has no bucket returns None and leaves
\* active_transfers and active_transfer_timestamps unchanged.
C7_MidTransferFrameDropped ==
    [][(/\ ReceiveStep
        /\ ~start_of_transfer(tm_last'.frame)
        /\ WireKey(tm_last'.frame) \notin DOMAIN active_transfers)
       => /\ tm_last'.result = NoResult
          /\ active_transfers' = active_transfers
          /\ active_transfer_timestamps' = active_transfer_timestamps]_vars

\* A frame with end-of-transfer and without start-of-transfer was dropped
\* while the bucket of another key was open.
C7_Witness ==
    /\ tm_last.op = "receive_frame"
    /\ ~tm_last.accepted
    /\ end_of_transfer(tm_last.frame)
    /\ ~start_of_transfer(tm_last.frame)
    /\ DOMAIN active_transfers # {}
    /\ tm_last.result = NoResult

\* C8: when receive_frame accepts a frame with end-of-transfer for key k, it
\* returns the frames accepted for k since k's bucket was created, in arrival
\* order and ending with that frame, all of key k, and afterwards k has no
\* bucket and no timestamp; for a frame without end-of-transfer it returns
\* None.
C8_CompletedTransfer ==
    [][ReceiveStep =>
        LET f == tm_last'.frame
            k == WireKey(f)
            r == tm_last'.result
        IN  IF end_of_transfer(f) /\ tm_last'.accepted
            THEN /\ r = (IF k \in DOMAIN since THEN since[k] ELSE <<>>) \o <<f>>
                 /\ \A i \in DOMAIN r : WireKey(r[i]) = k
                 /\ \A i \in 1..(Len(r) - 1) : r[i].seq < r[i + 1].seq
                 /\ k \notin DOMAIN active_transfers'
                 /\ k \notin DOMAIN active_transfer_timestamps'
            ELSE ~end_of_transfer(f) => r = NoResult]_vars

\* A transfer of two or more frames completed while the bucket of another
\* key was open.
C8_Witness ==
    /\ tm_last.op = "receive_frame"
    /\ Len(tm_last.result) >= 2
    /\ DOMAIN active_transfers # {}

\* C9: remove_inactive_transfers(timeout) completes normally, removes exactly
\* the buckets (and timestamps) older than timeout and leaves the others
\* unchanged.
C9_SweepRemovesExpired ==
    [][SweepStep =>
        LET gone == Expired(now, tm_last'.timeout)
        IN  /\ tm_last'.outcome = "ok"
            /\ active_transfers' =
                   [k \in (DOMAIN active_transfers) \ gone |->
                       active_transfers[k]]
            /\ active_transfer_timestamps' =
                   [k \in (DOMAIN active_transfer_timestamps) \ gone |->
                       active_transfer_timestamps[k]]]_vars

\* C10: when more than the timeout has passed since the last frame accepted
\* into the bucket of key k, a frame with end-of-transfer and without
\* start-of-transfer for k does not complete a transfer.
C10_StaleTransferNotCompleted ==
    (/\ tm_last.op = "receive_frame"
     /\ end_of_transfer(tm_last.frame)
     /\ ~start_of_transfer(tm_last.frame)
     /\ tm_last.gap # None
     /\ tm_last.gap > Timeout)
    => tm_last.result = NoResult

\* C18: a set_local_node_id call with a node id outside 0..NODE_ID_MASK, made
\* while no node id is assigned, fails with
\* InvalidTransportConfigurationError.
C18_OutOfRangeIsConfigurationError ==
    \A i \in DOMAIN calls :
        (/\ calls[i].prior = None
         /\ (calls[i].node_id < 0 \/ calls[i].node_id > NODE_ID_MASK))
        => calls[i].outcome = "InvalidTransportConfigurationError"

\* Whether two objects of one type hold the same value: the integers the
\* getters return, the items of arrays, the fields of composites, the active
\* field of unions.
RECURSIVE SameValue(_, _)
SameValue(a, b) ==
    CASE a.cat = "void" -> TRUE
      [] a.cat = "primitive" ->
             /\ ~IntRaises(a._bits)
             /\ ~IntRaises(b._bits)
             /\ value_getter(a) = value_getter(b)
      [] a.cat = "array" ->
             /\ Len(a.items) = Len(b.items)
             /\ \A i \in DOMAIN a.items : SameValue(a.items[i], b.items[i])
      [] a.cat = "compound" ->
             IF a._is_union
             THEN LET fa == IF a._union_field # 0 THEN a._union_field ELSE 1
                      fb == IF b._union_field # 0 THEN b._union_field ELSE 1
                  IN  fa = fb /\ SameValue(a._fields[fa], b._fields[fb])
             ELSE \A i \in DOMAIN a._fields :
                      SameValue(a._fields[i], b._fields[i])

\* C19: for every type and every legal value v of it, a new value of the same
\* type that unpacks v's packed bit stream ends without an error and equal to
\* v.
C19_UnpackPackRoundTrip ==
    sr_pc = "unpacked"
    => /\ sr_unpacked.error = ""
       /\ SameValue(sr_unpacked.obj, sr_value)

\* C20: an array value never holds more than max_size items, whatever
\* sequence of insert, append, item assignment, deletion, field assignment
\* and _unpack calls was made on it.
C20_ArrayLengthBounded ==
    array # <<>> => Len(array.items) <= array._type.max_size

\* The frames are as to_frames made them.
Untouched == sent.flipped = <<>> /\ sent.tails = {} /\ sent.cut = {}

\* C11: for every transfer T of a registered data type (message, anonymous
\* message, service request, service response) and every payload length,
\* from_frames on the frames of to_frames succeeds and restores T's transfer
\* id, priority, source and destination node id, request/response and
\* service/message flags, data type id and payload.
C11_TransferRoundTrip ==
    (xf_pc = "done" /\ Untouched)
    => /\ received.error = ""
       /\ received.transfer.transfer_id = transfer.transfer_id
       /\ received.transfer.transfer_priority = transfer.transfer_priority
       /\ received.transfer.source_node_id = transfer.source_node_id
       /\ received.transfer.dest_node_id = transfer.dest_node_id
       /\ received.transfer.request_not_response
              = transfer.request_not_response
       /\ received.transfer.service_not_message = transfer.service_not_message
       /\ received.transfer.data_type_id = transfer.data_type_id
       /\ SameValue(received.transfer.payload, sent.payload)

\* C12: in every frame list that to_frames produces, the toggle bit of frame
\* i (counted from 0) is i mod 2: clear on the first frame, flipped on every
\* following frame.
C12_ToggleAlternates ==
    (xf_pc \in {"frames", "done"} /\ Untouched)
    => \A i \in DOMAIN frame_list :
           Bit(Last(frame_list[i].bytes), 32) = (i - 1) % 2

\* A list of three frames has come out of to_frames.
C12_Witness == xf_pc = "frames" /\ Untouched /\ Len(frame_list) = 3

\* C13: when one bit of a payload byte (the CRC bytes included, the tail
\* bytes excluded) of a multi-frame list from to_frames is flipped,
\* from_frames raises TransferError.
C13_BitFlipRejected ==
    (xf_pc = "done" /\ sent.flipped # <<>>)
    => received.error = "TransferError"

\* from_frames has rejected a two-frame list with a flipped bit in a CRC
\* byte.
C13_Witness ==
    /\ xf_pc = "done"
    /\ Len(frame_list) = 2
    /\ sent.flipped # <<>>
    /\ sent.flipped[1] = 1
    /\ sent.flipped[2] = 2
    /\ received.error = "TransferError"

\* The tail-byte rules: one transfer id on all frames, start of transfer on
\* frame 0 only, end of transfer on the last frame only, toggle clear on
\* frame 0 and alternating afterwards.
TailRulesViolated(frames_) ==
    \E i \in DOMAIN frames_ :
        LET tail == Last(frames_[i].bytes)
        IN  \/ tail % 32 # Last(frames_[1].bytes) % 32
            \/ (Bit(tail, 128) = 1) # (i = 1)
            \/ (Bit(tail, 64) = 1) # (i = Len(frames_))
            \/ Bit(tail, 32) # (i - 1) % 2

\* Only the toggle rule is violated, on a frame after the first.
OnlyToggleViolated(frames_) ==
    /\ Len(frames_) > 1
    /\ \A i \in DOMAIN frames_ :
           LET tail == Last(frames_[i].bytes)
           IN  /\ tail % 32 = Last(frames_[1].bytes) % 32
               /\ (Bit(tail, 128) = 1) = (i = 1)
               /\ (Bit(tail, 64) = 1) = (i = Len(frames_))
    /\ Bit(Last(frames_[1].bytes), 32) = 0
    /\ Bit(Last(frames_[2].bytes), 32) = 0

\* C14: from_frames raises TransferError for every frame list that violates
\* a tail-byte rule.
C14_TailRulesEnforced ==
    (xf_pc = "done" /\ TailRulesViolated(frame_list))
    => received.error = "TransferError"

\* from_frames has rejected a list in which only the toggle of the second
\* frame is wrong.
C14_Witness ==
    /\ xf_pc = "done"
    /\ OnlyToggleViolated(frame_list)
    /\ received.error = "TransferError"

\* C15: no exception raised while one frame is processed leaves
\* _on_frames_received, and every frame of the batch gets its turn: a frame
\* whose own processing does not raise is dispatched to the sessions
\* registered for it, whatever the frames before it raised.
C15_ExceptionsContained ==
    (rt_last.op = "_on_frames_received" /\ media_log # <<>>)
    => /\ ~rt_last.propagated
       /\ Len(rt_last.batch) = Len(rt_last.frames)
       /\ \A i \in DOMAIN rt_last.frames :
              LET r == rt_last.batch[i]
                  cid == r.frame.identifier
              IN  /\ r.frame = rt_last.frames[i]
                  /\ (~r.raised /\ cid # NoCANID /\ r.frame.valid)
                     => IF r.frame.loopback
                        THEN Range(r.looped) =
                                 {Prior("out", to_output_data_specifier(cid),
                                        None)} \ {None}
                        ELSE Range(r.pushed) =
                                 {Prior("in", to_input_data_specifier(cid),
                                        cid.source_node_id),
                                  Prior("in", to_input_data_specifier(cid),
                                        None)} \ {None}

\* The first frame of a batch raised in push_frame and the second frame was
\* pushed to a session all the same.
C15_Witness ==
    /\ rt_last.op = "_on_frames_received"
    /\ media_log # <<>>
    /\ Len(rt_last.batch) = 2
    /\ rt_last.batch[1].raised
    /\ rt_last.batch[1].pushed # <<>>
    /\ ~rt_last.batch[2].raised
    /\ rt_last.batch[2].pushed # <<>>

\* C16: the frames pushed to an input session are a subsequence of the frames
\* the media reported: each is the frame at its position of the media's
\* sequence, and the positions increase, within a batch and across batches.
C16_PushOrder ==
    \A s \in DOMAIN push_log :
        \A k \in DOMAIN push_log[s] :
            /\ push_log[s][k].n \in DOMAIN media_log
            /\ media_log[push_log[s][k].n] = push_log[s][k].frame
            /\ k > 1 => push_log[s][k - 1].n < push_log[s][k].n

\* A session was pushed two frames of one batch and a frame of the next
\* batch.
C16_Witness ==
    \E s \in DOMAIN push_log :
        /\ Len(push_log[s]) = 3
        /\ Len(rt_last.frames) = 1
        /\ push_log[s][3].frame # push_log[s][1].frame

\* C17: every output session of the transport has the same media lock, and
\* the frames of one transfer are contiguous on the wire: between two frames
\* of a send there is no frame of another send.
C17_WireAtomicity ==
    /\ \A s \in DOMAIN sessions :
           IsOutput(s) => sessions[s].media_lock = _media_lock
    /\ \A a \in DOMAIN wire, b \in DOMAIN wire, c \in DOMAIN wire :
           (a < b /\ b < c /\ wire[a].send = wire[c].send)
               => wire[b].send = wire[a].send

\* Two two-frame transfers of two different output sessions were sent while
\* one of them had to wait for the lock.
C17_Witness ==
    /\ Len(wire) = 4
    /\ Len(sends) = 2
    /\ sends[1].session # sends[2].session
    /\ sends[1].pc = "done"
    /\ sends[2].pc = "done"
    /\ sessions[sends[1].session].kind # sessions[sends[2].session].kind

\* The frames of the 20-byte message with transfer id 1, as to_frames left
\* them.
LongTransferSent ==
    /\ xf_pc \in {"frames", "done"}
    /\ Untouched
    /\ Len(transfer.payload) = 20
    /\ transfer.transfer_id = 1

\* The numbers of payload bytes of the frames, tail bytes left out.
PayloadSizes(frames_) == [i \in DOMAIN frames_ |-> Len(frames_[i].bytes) - 1]

\* The tail bytes of the frames.
Tails(frames_) == [i \in DOMAIN frames_ |-> Last(frames_[i].bytes)]

\* C22 as stated: for a 20-byte payload with transfer id 1, to_frames yields
\* four frames of 7, 7, 7 and 1 payload bytes with the tail bytes 0x81, 0xA1,
\* 0x81, 0xC1.
C22_TailBytesAsStated ==
    LongTransferSent
    => /\ PayloadSizes(frame_list) = <<7, 7, 7, 1>>
       /\ Tails(frame_list) = <<129, 161, 129, 193>>

\* C22 amended: for a 20-byte payload with transfer id 1, to_frames yields
\* four frames of 7, 7, 7 and 1 payload bytes with the tail bytes 0x81, 0x21,
\* 0x01, 0x61: start of transfer on the first frame only, end of transfer on
\* the last frame only, the toggle 0, 1, 0, 1.
C22_TailBytes ==
    LongTransferSent
    => /\ PayloadSizes(frame_list) = <<7, 7, 7, 1>>
       /\ Tails(frame_list) = <<129, 33, 1, 97>>

\* to_frames has produced the frames of the 20-byte message.
C22_Witness == LongTransferSent /\ xf_pc = "frames" /\ Len(frame_list) = 4

\* C23: in every frame list of to_frames, start of transfer is set on the
\* first frame only, end of transfer on the last frame only, every tail byte
\* carries the transfer id modulo 32, every frame carries the message id of
\* the transfer; a payload of at most 7 bytes gives one frame with start and
\* end of transfer set and toggle 0.
C23_FrameFlags ==
    (xf_pc \in {"frames", "done"} /\ Untouched)
    => /\ Len(frame_list) >= 1
       /\ \A i \in DOMAIN frame_list :
              LET tail == Last(frame_list[i].bytes)
              IN  /\ (Bit(tail, 128) = 1) = (i = 1)
                  /\ (Bit(tail, 64) = 1) = (i = Len(frame_list))
                  /\ tail % 32 = transfer.transfer_id % 32
                  /\ frame_list[i].message_id = frame_list[1].message_id
                  /\ frame_list[i].message_id = message_id(transfer)
       /\ Len(transfer.payload) <= 7
          => /\ Len(frame_list) = 1
             /\ Last(frame_list[1].bytes) =
                    128 + 64 + (transfer.transfer_id % 32)

\* A payload of exactly 7 bytes has gone out as one frame.
C23_Witness ==
    /\ xf_pc = "frames"
    /\ Untouched
    /\ Len(transfer.payload) = 7
    /\ Len(frame_list) = 1

\* The payload bytes of the frames, tail bytes removed, concatenated in
\* order.
FramePayload(frames_) ==
    Join([i \in DOMAIN frames_ |->
             SubSeq(frames_[i].bytes, 1, Len(frames_[i].bytes) - 1)])

\* C24: to_frames emits more than one frame exactly when the payload is
\* longer than 7 bytes, and exactly then the frames carry CRC-low, CRC-high
\* and the payload, otherwise the payload alone; every frame carries at most
\* 7 payload bytes and no frame after the first is empty of payload.
C24_CRCWhenMultiFrame ==
    (xf_pc \in {"frames", "done"} /\ Untouched)
    => LET crc == crc16_from_bytes(transfer.payload, transfer.data_type_crc)
       IN  /\ (Len(frame_list) > 1) = (Len(transfer.payload) > 7)
           /\ FramePayload(frame_list) =
                  IF Len(transfer.payload) > 7
                  THEN <<crc % 256, crc \div 256>> \o transfer.payload
                  ELSE transfer.payload
           /\ \A i \in DOMAIN frame_list :
                  /\ Len(frame_list[i].bytes) - 1 <= 7
                  /\ i > 1 => Len(frame_list[i].bytes) - 1 >= 1

\* A payload of 12 bytes has gone out with its CRC as two frames of 7
\* payload bytes each.
C24_Witness ==
    /\ xf_pc = "frames"
    /\ Untouched
    /\ Len(transfer.payload) = 12
    /\ PayloadSizes(frame_list) = <<7, 7>>

\* C26: the message id that the message_id getter builds for a transfer,
\* parsed back by the message_id setter on a new Transfer, restores the
\* priority, the service/message flag, the source and destination node id,
\* the request/response flag, the data type id and, for an anonymous
\* message, the discriminator.
C26_MessageIdRoundTrip ==
    (xf_pc = "done" /\ Untouched)
    => /\ frame_list[1].message_id = message_id(transfer)
       /\ received.transfer.transfer_priority = transfer.transfer_priority
       /\ received.transfer.service_not_message = transfer.service_not_message
       /\ received.transfer.source_node_id = transfer.source_node_id
       /\ received.transfer.dest_node_id = transfer.dest_node_id
       /\ received.transfer.request_not_response
              = transfer.request_not_response
       /\ received.transfer.data_type_id = transfer.data_type_id
       /\ received.transfer.discriminator = transfer.discriminator

\* The round trip of the message id for every transfer but the anonymous
\* messages of a data type id of 4 or more.
MessageIdRoundTripBelowFour ==
    (xf_pc = "done" /\ Untouched
     /\ ~(~transfer.service_not_message /\ transfer.source_node_id = 0
          /\ transfer.data_type_id >= 4))
    => C26_MessageIdRoundTrip

\* The primitive values inside a value.
RECURSIVE Primitives(_)
Primitives(obj) ==
    CASE obj.cat = "primitive" -> {obj}
      [] obj.cat = "void" -> {}
      [] obj.cat = "array" ->
             UNION {Primitives(obj.items[i]) : i \in DOMAIN obj.items}
      [] obj.cat = "compound" ->
             UNION {Primitives(obj._fields[i]) : i \in DOMAIN obj._fields}

\* The bit string has exactly bitlen characters, each a binary digit.
BinaryDigits(obj) ==
    /\ Len(obj._bits) = obj._type.bitlen
    /\ \A i \in DOMAIN obj._bits : obj._bits[i] \in {"0", "1"}

\* value in two's complement at bitlen bits
TwosComplement(value, bitlen) ==
    LET digits == Digits(value % Pow2(bitlen))
    IN  Zeros(bitlen - Len(digits)) \o digits

\* C27: after an assignment to a primitive value, and after an unpack, the
\* stored bit string has exactly bitlen binary digits; for a signed type it
\* is the cast value in two's complement at bitlen bits.
C27_BitStringWidth ==
    /\ \A p \in Primitives(sr_value) : BinaryDigits(p)
    /\ (sr_pc = "unpacked" /\ sr_unpacked.error = "")
       => \A p \in Primitives(sr_unpacked.obj) : BinaryDigits(p)
    /\ (sr_value.cat = "primitive" /\ sr_value._type.kind = "signed")
       => \A x \in Samples(sr_value._type) :
              sr_value = value_setter(PrimitiveValue(sr_value._type), x)
              => sr_value._bits
                     = TwosComplement(cast(x, sr_value._type),
                                      sr_value._type.bitlen)

\* Every dynamic array inside obj that omits its length prefix has elements
\* of at least 8 bits and stands in a TAO context: context tells whether obj
\* itself does (the top-level value does when built with _tao; the last
\* field of a composite in a TAO context does; an element of an array and a
\* field that is not the last do not).
RECURSIVE TAOInContext(_, _)
TAOInContext(obj, context) ==
    CASE obj.cat \in {"primitive", "void"} -> TRUE
      [] obj.cat = "array" ->
             /\ obj._tao
                => /\ context
                   /\ obj._type.value_type.cat = "primitive"
                   /\ obj._type.value_type.bitlen >= 8
             /\ \A i \in DOMAIN obj.items : TAOInContext(obj.items[i], FALSE)
      [] obj.cat = "compound" ->
             \A i \in DOMAIN obj._fields :
                 TAOInContext(obj._fields[i],
                              context /\ i = Len(obj._fields))

\* C25: a dynamic array value omits its length prefix only if its elements
\* are at least 8 bits wide, it is the last field of its composite and every
\* enclosing composite is in a TAO context up to the top-level value; an
\* array inside a composite that is an element of an array or a field that
\* is not the last keeps its length prefix.
C25_TAOOnlyInContext == sr_value # <<>> => TAOInContext(sr_value, sr_tao)

\* The same for the values that have no composite as an element of an array.
RECURSIVE NoCompositeItems(_)
NoCompositeItems(obj) ==
    CASE obj.cat \in {"primitive", "void"} -> TRUE
      [] obj.cat = "array" -> obj._type.value_type.cat = "primitive"
      [] obj.cat = "compound" ->
             \A i \in DOMAIN obj._fields : NoCompositeItems(obj._fields[i])

TAOInContextOutsideArrays ==
    (sr_value # <<>> /\ NoCompositeItems(sr_value))
    => TAOInContext(sr_value, sr_tao)

\* C21: in a union value with an active field, a read or a write of another
\* field raises AttributeError and leaves the active field and every field
\* value as they were; the first read or write of a field makes it active, a
\* successful _unpack leaves a field active, and the active field changes
\* only through switch_union_field or _unpack.
C21_UnionFieldAccess ==
    un_last # <<>>
    => LET before == un_last.before
           access == un_last.op \in {"__getattr__", "__setattr__"}
       IN  /\ (access /\ before._union_field # 0
                      /\ un_last.attr # before._union_field)
              => /\ un_last.outcome = "AttributeError"
                 /\ un_value = before
           /\ (access /\ before._union_field = 0)
              => un_value._union_field = un_last.attr
           /\ (un_last.op = "_unpack" /\ un_last.outcome = "ok")
              => un_value._union_field # 0
           /\ (before._union_field # 0
                   /\ un_value._union_field # before._union_field)
              => un_last.op \in {"switch_union_field", "_unpack"}

\* After a field was written and read, a write of another field was refused.
C21_Witness ==
    /\ un_last # <<>>
    /\ un_last.ncalls = 3
    /\ un_last.op = "__setattr__"
    /\ un_last.outcome = "AttributeError"
    /\ un_last.before._union_field = 1
    /\ un_last.attr = 3
    /\ value_getter(un_value._fields[1]) = 3

\* C28: when the finalizer of a session runs again after a new session was
\* created for the same key (a repeated close of the old session), the new
\* session stays registered in the output registry or the dispatch table.
C28_StaleFinalizerKeepsNewSession ==
    (/\ rt_last.op = "close"
     /\ rt_last.prior # None
     /\ rt_last.prior # rt_last.session)
    => Registered(rt_last.key, rt_last.prior)

\* The calls that got past the test of line 54 (they were not refused with
\* InvalidTransportConfigurationError).
AcceptedCalls ==
    {i \in DOMAIN calls :
        calls[i].outcome # "InvalidTransportConfigurationError"}

\* C29: when two or more set_local_node_id calls with valid node ids run
\* concurrently (a call may be suspended in the media call while the others
\* are made), exactly one call is accepted, local_node_id is that call's
\* argument, every other call fails with
\* InvalidTransportConfigurationError, enable_automatic_retransmission is
\* invoked exactly once, and the accepted call returns normally when the
\* media call does.
C29_OneCallAccepted ==
    (/\ Len(calls) >= 2
     /\ \A i \in DOMAIN calls :
            0 <= calls[i].node_id /\ calls[i].node_id <= NODE_ID_MASK)
    => /\ Cardinality(AcceptedCalls) = 1
       /\ \A i \in AcceptedCalls :
              /\ local_node_id = calls[i].node_id
              /\ calls[i].outcome \in {"pending", "ok", "MediaError"}
       /\ retransmission = 1

\* A second call was refused while the first was suspended in the media
\* call, and a third after it.
C29_Witness ==
    /\ Len(calls) = 3
    /\ \A i \in DOMAIN calls :
           0 <= calls[i].node_id /\ calls[i].node_id <= NODE_ID_MASK
    /\ calls[1].pc = "enable_automatic_retransmission"
    /\ calls[2].outcome = "InvalidTransportConfigurationError"
    /\ calls[3].outcome = "InvalidTransportConfigurationError"
    /\ calls[2].node_id # calls[1].node_id
    /\ local_node_id = calls[1].node_id

\* C30: a set_local_node_id call that fails, because the node id is out of
\* range or because enable_automatic_retransmission raises, leaves the
\* transport as it was: while every call made so far has failed in one of
\* these ways, local_node_id is None (so that a later call with a valid node
\* id is not refused).
C30_FailedCallLeavesNoId ==
    (\A i \in DOMAIN calls : calls[i].outcome \in {"ValueError", "MediaError"})
    => local_node_id = None

\* C31: a start-of-transfer frame that arrives while a bucket for its
\* transfer key exists starts a fresh bucket, so that every frame list that
\* receive_frame returns holds exactly one start-of-transfer frame, the
\* first.
C31_OneStartOfTransfer ==
    (tm_last.op = "receive_frame" /\ tm_last.result # NoResult)
    => \A i \in DOMAIN tm_last.result :
           start_of_transfer(tm_last.result[i]) = (i = 1)

\* C34: after any sequence of receive_frame and remove_inactive_transfers
\* calls, also one that ended in an error, active_transfers and
\* active_transfer_timestamps have the same keys, every bucket is non-empty,
\* its first frame has start of transfer set, none of its frames has end of
\* transfer set, and every frame in it has bytes and the transfer key of the
\* bucket.
C34_BucketsWellFormed ==
    /\ DOMAIN active_transfers = DOMAIN active_transfer_timestamps
    /\ \A key \in DOMAIN active_transfers :
           LET bucket == active_transfers[key]
           IN  /\ bucket # <<>>
               /\ start_of_transfer(bucket[1])
               /\ \A i \in DOMAIN bucket :
                      /\ ~end_of_transfer(bucket[i])
                      /\ bucket[i].bytes # <<>>
                      /\ transfer_key(bucket[i]) = key

\* A sweep ended in an error and left a bucket of two frames.
C34_Witness ==
    /\ tm_last.op = "remove_inactive_transfers"
    /\ tm_last.outcome = "RuntimeError"
    /\ \E key \in DOMAIN active_transfers : Len(active_transfers[key]) = 2

\* The promiscuous input session registered for a data specifier (None for
\* none).
PromiscuousSession(data_specifier) ==
    input_dispatch_table[
        _compute_input_dispatch_table_index(data_specifier, None)]

\* If CANID.try_parse gives a MessageCANID for an anonymous message, with
\* the source node id None or 0, _handle_received_frame pushes the frame to
\* the promiscuous input session of its subject in every reachable state of
\* the dispatch table.
AnonymousAsMessageDelivered ==
    \A i \in EnvSubjects, nid \in {None, 0}, order \in 1..2 :
        PromiscuousSession(MessageDataSpecifier(i)) # None
        => PromiscuousSession(MessageDataSpecifier(i))
               \in Range(_handle_received_frame(MessageCANID(i, nid), order))

\* C32: for every non-empty list of frames that carry at least a tail byte
\* each, from_frames succeeds or raises TransferError and nothing else, also
\* for a multi-frame list with fewer than 2 payload bytes and for a payload
\* shorter than the data type needs.
C32_OnlyTransferError ==
    xf_pc = "done" => received.error \in {"", "TransferError"}

\* What from_frames does with a well-formed multi-frame list of fewer than
\* 2 payload bytes: reading the transfer CRC raises IndexError.
FramePayloadLength(frames_) ==
    Len(Join([i \in DOMAIN frames_ |->
                 SubSeq(frames_[i].bytes, 1, Len(frames_[i].bytes) - 1)]))

ShortListRaisesIndexError ==
    (/\ xf_pc = "done"
     /\ Len(frame_list) > 1
     /\ FramePayloadLength(frame_list) < 2
     /\ ~TailRulesViolated(frame_list))
    => received.error = "IndexError"

ShortListRejected ==
    /\ xf_pc = "done"
    /\ Len(frame_list) > 1
    /\ received.error = "IndexError"

ShortPayloadRejected ==
    /\ xf_pc = "done"
    /\ Len(frame_list) = 1
    /\ received.error = "ValueError"

====
